---- MODULE Spec2Model ----
(***************************************************************************)
(* Tail: compiler (AST -> bytecode image) and stack VM.                    *)
(*                                                                         *)
(* The compiler is modelled as operators over a compiler-state record      *)
(* (the fields of Tail::Compiler), the VM as a state machine whose         *)
(* variables are the fields of TVM::VM.  A C++ exception thrown during     *)
(* compilation is the field err of the compiler state: once it is set,     *)
(* every later compile operator returns the state unchanged, which is how  *)
(* the exception unwinds to the caller of Compiler::compile.               *)
(***************************************************************************)
EXTENDS Integers, Sequences, FiniteSets, TLC

\* ------------------------------------------------------------------------
\* Bounds of the model
\* ------------------------------------------------------------------------

\* Nesting depth of the generated control-flow statements.
MaxNest == 2

\* Length of the code of the hand-written images.
MaxRaw == 2

\* Number of VM instructions executed in one run.
MaxSteps == 24

\* The longest function body of the token sequences, in statements.
MaxStmts == 2

\* ------------------------------------------------------------------------
\* Program constants
\* ------------------------------------------------------------------------

\* The operand of a jump that has not been patched, and the value
\* resolveLocal/resolveGlobal return for "not found" (0xFFFFFFFF in the code).
\* It is only ever compared with indices and code lengths, so it is kept as the
\* largest integer the model checker represents: above every address, index
\* and slot, as 0xFFFFFFFF is.
UINT32_MAX == 2147483647

\* Width of FunctionInfo::arity and FunctionInfo::locals (uint8_t).
U8 == 256

\* ------------------------------------------------------------------------
\* Values (TVM::Value / TVM::Constant): a type tag and a payload.  The payload
\* is an integer: the int itself, the whole float, 0/1 for bool, the index
\* into the string table for strings, 0 for nil.
\* ------------------------------------------------------------------------

Val(t, v) == [t |-> t, v |-> v]
NilVal == Val("nil", 0)
IntVal(n) == Val("int", n)
FloatVal(n) == Val("float", n)
BoolVal(b) == Val("bool", IF b THEN 1 ELSE 0)
StrVal(idx) == Val("string", idx)

isTruthy(x) ==
    CASE x.t = "nil" -> FALSE
      [] x.t = "int" -> x.v # 0
      [] x.t = "float" -> x.v # 0
      [] x.t = "bool" -> x.v = 1
      [] x.t = "string" -> TRUE
      [] OTHER -> TRUE

Digit == <<"0", "1", "2", "3", "4", "5", "6", "7", "8", "9">>

RECURSIVE NatStr(_)
NatStr(n) == IF n < 10 THEN Digit[n + 1] ELSE NatStr(n \div 10) \o Digit[(n % 10) + 1]

IntStr(n) == IF n < 0 THEN "-" \o NatStr(-n) ELSE NatStr(n)

\* Value::toString(prog): strs is prog->strings.
toString(x, strs) ==
    CASE x.t = "nil" -> "nil"
      [] x.t = "int" -> IntStr(x.v)
      [] x.t = "float" -> IntStr(x.v) \o ".000000"
      [] x.t = "bool" -> IF x.v = 1 THEN "true" ELSE "false"
      [] x.t = "string" -> IF x.v < Len(strs) THEN strs[x.v + 1] ELSE "[string]"
      [] x.t = "array_int" -> "[int array]"
      [] x.t = "array_float" -> "[float array]"
      [] x.t = "array_string" -> "[string array]"
      [] OTHER -> "[unknown]"

\* ------------------------------------------------------------------------
\* Instructions and the image
\* ------------------------------------------------------------------------

Instruction(op, operand) == [op |-> op, operand |-> operand]

FunctionInfo(name, address, arity, locals) ==
    [name |-> name, address |-> address, arity |-> arity % U8, locals |-> locals % U8]

EmptyMap == [x \in {} |-> 0]

\* BytecodeFile(): the default header and empty sections.
BytecodeFile ==
    [magic |-> 1413564748, version |-> 1, flags |-> 0,
     code |-> <<>>, constants |-> <<>>, strings |-> <<>>,
     intArrays |-> <<>>, floatArrays |-> <<>>, stringArrays |-> <<>>,
     functions |-> <<>>, nativeImports |-> <<>>]

\* ------------------------------------------------------------------------
\* The AST (shared/ast.h).  A node is a record with a kind k; an absent
\* child (a null shared_ptr) is NoNode.
\* ------------------------------------------------------------------------

NoNode == [k |-> "None"]

\* A compile-time literal (shared/value.h): tag, integer payload, string payload.
Lit(t, i, s) == [k |-> "Literal", t |-> t, i |-> i, s |-> s]
LitInt(n) == Lit("int", n, "")
LitBool(b) == Lit("bool", IF b THEN 1 ELSE 0, "")
LitStr(s) == Lit("string", 0, s)
LitNil == Lit("nil", 0, "")
Variable(n) == [k |-> "Variable", name |-> n]
Binary(l, op, r) == [k |-> "Binary", left |-> l, op |-> op, right |-> r]
Compare(l, op, r) == [k |-> "Compare", left |-> l, op |-> op, right |-> r]
Logical(l, op, r) == [k |-> "Logical", left |-> l, op |-> op, right |-> r]
Call(cls, m, args, native) ==
    [k |-> "Call", className |-> cls, methodName |-> m, args |-> args, isNative |-> native]
ArrayExpr(elems) == [k |-> "Array", elements |-> elems]
IndexExpr(a, i) == [k |-> "Index", array |-> a, index |-> i]
\* GetExpr (shared/parser.h): object.name, what the parser builds for a dot.
Get(obj, n) == [k |-> "Get", object |-> obj, name |-> n]

ExprStmt(e) == [k |-> "ExprStmt", expression |-> e]
VarDeclStmt(mut, t, n, init) ==
    [k |-> "VarDecl", isMutable |-> mut, type |-> t, name |-> n, initializer |-> init]
VarDecl(t, n, init) == VarDeclStmt(TRUE, t, n, init)
Assign(n, v) == [k |-> "Assign", name |-> n, value |-> v]
Block(stmts) == [k |-> "Block", statements |-> stmts]
If(c, th, el) == [k |-> "If", condition |-> c, thenBranch |-> th, elseBranch |-> el]
While(c, b) == [k |-> "While", condition |-> c, body |-> b]
For(init, c, inc, b) ==
    [k |-> "For", initializer |-> init, condition |-> c, increment |-> inc, body |-> b]
Return(v) == [k |-> "Return", value |-> v]
Break == [k |-> "Break"]
Continue == [k |-> "Continue"]
ArrayDecl(t, n, size, init) ==
    [k |-> "ArrayDecl", type |-> t, name |-> n, size |-> size, initializer |-> init]
\* parameters is a sequence of parameter names (the types are not used by the compiler).
Function(name, params, body) ==
    [k |-> "Function", name |-> name, parameters |-> params, body |-> body]

\* ------------------------------------------------------------------------
\* Compiler state (compiler/compiler.h)
\* ------------------------------------------------------------------------

\* Compiler::FunctionContext, default-constructed.
FunctionContext == [varMap |-> EmptyMap, nextLocal |-> 0, startAddr |-> 0, paramCount |-> 0]

\* Compiler::LoopContext, default-constructed.
LoopContext == [breakPatches |-> <<>>, continuePatches |-> <<>>]

\* Compiler::Compiler(): one global context on the context stack.
\* slotLog, fnPath and fnSerial are history fields, not fields of the class:
\* slotLog records every addLocal call as (function, name, slot), fnPath is the
\* stack of the functions being compiled and fnSerial numbers them.
Compiler ==
    [bytecode |-> BytecodeFile,
     contextStack |-> <<FunctionContext>>,
     loopStack |-> <<>>,
     globalMap |-> EmptyMap,
     functionAddrs |-> EmptyMap,
     err |-> "",
     slotLog |-> <<>>, fnPath |-> <<>>, fnSerial |-> 0]

\* throw std::runtime_error(msg)
Throw(cs, msg) == [cs EXCEPT !.err = msg]

\* The statements after a call that may throw: they run on the state the call
\* left only when it returned; a thrown exception passes them by.
Then(cs, F(_)) == IF cs.err # "" THEN cs ELSE F(cs)

codeSize(cs) == Len(cs.bytecode.code)

Put(map, key, val) == [x \in (DOMAIN map) \cup {key} |-> IF x = key THEN val ELSE map[x]]

\* Compiler::emit
emit(cs, op, operand) ==
    [cs EXCEPT !.bytecode.code = Append(@, Instruction(op, operand))]

\* The first index (0-based) of seq whose element satisfies Test, or Len(seq).
FirstIndex(seq, Test(_)) ==
    IF \E i \in 1..Len(seq) : Test(seq[i])
    THEN (CHOOSE i \in 1..Len(seq) : Test(seq[i]) /\ \A j \in 1..(i - 1) : ~Test(seq[j])) - 1
    ELSE Len(seq)

\* addConstantInt / addConstantFloat / addConstantBool: the index of the first
\* constant of that type and value, or a new constant at the end.
constantIndex(cs, c) ==
    LET Same(x) == x = c IN FirstIndex(cs.bytecode.constants, Same)

\* A new constant at the end whether or not the value is in the pool.
addConstantAlways(cs, c) == [cs EXCEPT !.bytecode.constants = Append(@, c)]

addConstant(cs, c) ==
    IF constantIndex(cs, c) < Len(cs.bytecode.constants)
    THEN cs
    ELSE [cs EXCEPT !.bytecode.constants = Append(@, c)]

\* addConstantString: a string already in the table whose constant exists is
\* re-used; otherwise the string and a constant for it are appended.
stringConstantIndex(cs, value) ==
    LET strs == cs.bytecode.strings
        consts == cs.bytecode.constants
        Hit(j) == consts[j].t = "string" /\ consts[j].v < Len(strs)
                  /\ strs[consts[j].v + 1] = value
        \* the outer loop runs over the strings in order, the inner one over the constants
        hits == {j \in 1..Len(consts) : Hit(j)}
        firstStr == CHOOSE i \in {consts[j].v : j \in hits} :
                        \A i2 \in {consts[j].v : j \in hits} : i <= i2
        best == CHOOSE j \in hits : consts[j].v = firstStr
                    /\ \A j2 \in hits : consts[j2].v = firstStr => j <= j2
    IN IF hits = {} THEN Len(consts) ELSE best - 1

addConstantString(cs, value) ==
    IF stringConstantIndex(cs, value) < Len(cs.bytecode.constants)
    THEN cs
    ELSE [cs EXCEPT !.bytecode.strings = Append(@, value),
                    !.bytecode.constants = Append(@, StrVal(Len(cs.bytecode.strings)))]

emitPushInt(cs, value) ==
    emit(addConstant(cs, IntVal(value)), "PUSH", constantIndex(cs, IntVal(value)))

emitPushFloat(cs, value) ==
    emit(addConstant(cs, FloatVal(value)), "PUSH", constantIndex(cs, FloatVal(value)))

emitPushBool(cs, value) ==
    emit(addConstant(cs, BoolVal(value)), "PUSH", constantIndex(cs, BoolVal(value)))

emitPushString(cs, value) ==
    emit(addConstantString(cs, value), "PUSH", stringConstantIndex(cs, value))

\* emitPushNil appends a new nil constant every time (no search).
emitPushNil(cs) ==
    emit([cs EXCEPT !.bytecode.constants = Append(@, NilVal)], "PUSH",
         Len(cs.bytecode.constants))

\* emitJump: the jump is emitted with the placeholder operand; its index is codeSize
\* of the state before.
emitJump(cs, op) == emit(cs, op, UINT32_MAX)

\* patchJump: the operand becomes the current code size.
patchJump(cs, jumpAddr) ==
    [cs EXCEPT !.bytecode.code[jumpAddr + 1].operand = codeSize(cs)]

\* patchJumps: every listed jump gets the target.
patchJumps(cs, patches, target) ==
    [cs EXCEPT !.bytecode.code =
        [i \in 1..Len(@) |->
            IF \E p \in 1..Len(patches) : patches[p] = i - 1
            THEN [@[i] EXCEPT !.operand = target]
            ELSE @[i]]]

\* addNativeImport: index of the name, appended when new.
nativeImportIndex(cs, name) ==
    LET Same(x) == x = name IN FirstIndex(cs.bytecode.nativeImports, Same)

addNativeImport(cs, name) ==
    IF nativeImportIndex(cs, name) < Len(cs.bytecode.nativeImports)
    THEN cs
    ELSE [cs EXCEPT !.bytecode.nativeImports = Append(@, name)]

\* compileNewArray: a new array-typed constant and NEW_ARRAY of it.
compileNewArray(cs, elemType, size) ==
    emit([cs EXCEPT !.bytecode.constants = Append(@, Val(elemType, size))], "NEW_ARRAY",
         Len(cs.bytecode.constants))

\* resolveLocal: innermost context that maps the name, UINT32_MAX when none does.
resolveLocal(cs, name) ==
    LET has == {i \in 1..Len(cs.contextStack) : name \in DOMAIN cs.contextStack[i].varMap}
        top == CHOOSE i \in has : \A j \in has : j <= i
    IN IF has = {} THEN UINT32_MAX ELSE cs.contextStack[top].varMap[name]

resolveGlobal(cs, name) ==
    IF name \in DOMAIN cs.globalMap THEN cs.globalMap[name] ELSE UINT32_MAX

\* FunctionContext::addLocal on a context: the slot is the context's nextLocal.
ctxAddLocal(ctx, name) ==
    [ctx EXCEPT !.varMap = Put(@, name, ctx.nextLocal), !.nextLocal = @ + 1]

\* currentContext().addLocal(name); the slot handed out is the old nextLocal of
\* the top context.
currentNextLocal(cs) == cs.contextStack[Len(cs.contextStack)].nextLocal

addLocal(cs, name) ==
    [cs EXCEPT !.contextStack[Len(cs.contextStack)] = ctxAddLocal(@, name),
               !.slotLog = Append(@, [fn |-> IF cs.fnPath = <<>> THEN 0
                                              ELSE cs.fnPath[Len(cs.fnPath)],
                                      name |-> name,
                                      slot |-> currentNextLocal(cs)])]

\* ------------------------------------------------------------------------
\* Expressions (compiler/compiler.cpp)
\* ------------------------------------------------------------------------

RECURSIVE compileExpr(_, _)
RECURSIVE compileExprs(_, _)

\* Compiler::compileLiteral
compileLiteral(cs, expr) ==
    CASE expr.t = "int" -> emitPushInt(cs, expr.i)
      [] expr.t = "float" -> emitPushFloat(cs, expr.i)
      [] expr.t = "bool" -> emitPushBool(cs, expr.i = 1)
      [] expr.t = "string" -> emitPushString(cs, expr.s)
      [] expr.t = "nil" -> emitPushNil(cs)
      [] OTHER -> Throw(cs, "Unsupported literal type")

\* Compiler::compileVariable
compileVariable(cs, expr) ==
    IF resolveLocal(cs, expr.name) # UINT32_MAX
    THEN emit(cs, "LOAD", resolveLocal(cs, expr.name))
    ELSE IF resolveGlobal(cs, expr.name) # UINT32_MAX
         THEN emit(cs, "LOAD_GLOBAL", resolveGlobal(cs, expr.name))
         ELSE Throw(cs, "Undefined variable: " \o expr.name)

\* The opcode compileBinary emits for an operator, "" when it throws.
binaryOpcode(op) ==
    CASE op = "+" -> "ADD"
      [] op = "-" -> "SUB"
      [] op = "*" -> "MUL"
      [] op = "/" -> "DIV"
      [] op = "%" -> "MOD"
      [] OTHER -> ""

\* Compiler::compileBinary: both operands are compiled before the operator is looked at.
compileBinary(cs, expr) ==
    Then(compileExpr(compileExpr(cs, expr.left), expr.right), LAMBDA c2 :
        IF binaryOpcode(expr.op) # "" THEN emit(c2, binaryOpcode(expr.op), 0)
        ELSE Throw(c2, "Unknown binary operator: " \o expr.op))

compareOpcode(op) ==
    CASE op = "==" -> "EQ"
      [] op = "!=" -> "NEQ"
      [] op = "<" -> "LT"
      [] op = "<=" -> "LTE"
      [] op = ">" -> "GT"
      [] op = ">=" -> "GTE"
      [] OTHER -> ""

\* Compiler::compileCompare
compileCompare(cs, expr) ==
    Then(compileExpr(compileExpr(cs, expr.left), expr.right), LAMBDA c2 :
        IF compareOpcode(expr.op) # "" THEN emit(c2, compareOpcode(expr.op), 0)
        ELSE Throw(c2, "Unknown comparison operator: " \o expr.op))

\* The conditional jump compileLogical emits between the operands of && and ||.
logicalJump(op) == IF op = "&&" THEN "JMP_IFNOT" ELSE "JMP_IF"

\* Compiler::compileLogical
compileLogical(cs, expr) ==
    IF expr.op = "!"
    THEN Then(compileExpr(cs, expr.right), LAMBDA c1 : emit(c1, "NOT", 0))
    ELSE IF expr.op \in {"&&", "||"}
    THEN Then(compileExpr(cs, expr.left), LAMBDA c1 :
         Then(compileExpr(emitJump(c1, logicalJump(expr.op)), expr.right), LAMBDA c2 :
         patchJump(c2, codeSize(c1))))
    ELSE Throw(cs, "Unknown logical operator: " \o expr.op)

\* functionAddrs.find for the qualified name, then for the bare method name.
lookupFunction(cs, expr) ==
    LET functionToCall == IF expr.className # ""
                          THEN expr.className \o "_" \o expr.methodName
                          ELSE expr.methodName
    IN IF functionToCall \in DOMAIN cs.functionAddrs THEN cs.functionAddrs[functionToCall]
       ELSE IF expr.methodName \in DOMAIN cs.functionAddrs
            THEN cs.functionAddrs[expr.methodName]
            ELSE UINT32_MAX

hasFunction(cs, expr) ==
    \/ (IF expr.className # "" THEN expr.className \o "_" \o expr.methodName
        ELSE expr.methodName) \in DOMAIN cs.functionAddrs
    \/ expr.methodName \in DOMAIN cs.functionAddrs

\* Compiler::compileCall
compileCall(cs, expr) ==
    Then(compileExprs(cs, expr.args), LAMBDA c1 :
        IF expr.isNative
        THEN CASE expr.className \o "." \o expr.methodName = "Console.println" ->
                    emit(c1, "PRINTLN", 0)
               [] expr.className \o "." \o expr.methodName = "Console.print" ->
                    emit(c1, "PRINT", 0)
               [] expr.className \o "." \o expr.methodName = "Console.read" ->
                    emit(c1, "READ", 0)
               [] OTHER ->
                    emit(addNativeImport(c1, expr.className \o "." \o expr.methodName),
                         "CALL_NATIVE",
                         nativeImportIndex(c1, expr.className \o "." \o expr.methodName))
        ELSE IF hasFunction(c1, expr)
        THEN emit(c1, "CALL", lookupFunction(c1, expr))
        ELSE Throw(c1, "Function " \o expr.className \o "." \o expr.methodName \o " not found"))

\* Compiler::compileArray
compileArray(cs, expr) ==
    IF expr.elements = <<>>
    THEN Throw(cs, "Empty array needs type specification")
    ELSE Then(compileExprs(cs, expr.elements), LAMBDA c1 :
              emit(emitPushInt(c1, Len(expr.elements)), "NEW_ARRAY", 0))

\* Compiler::compileIndex
compileIndex(cs, expr) ==
    Then(compileExpr(compileExpr(cs, expr.array), expr.index), LAMBDA c2 :
         emit(c2, "LOAD_INDEX", 0))

\* Compiler::compileExpr
compileExpr(cs, expr) ==
    IF cs.err # "" THEN cs
    ELSE CASE expr.k = "Literal" -> compileLiteral(cs, expr)
           [] expr.k = "Variable" -> compileVariable(cs, expr)
           [] expr.k = "Binary" -> compileBinary(cs, expr)
           [] expr.k = "Compare" -> compileCompare(cs, expr)
           [] expr.k = "Logical" -> compileLogical(cs, expr)
           [] expr.k = "Call" -> compileCall(cs, expr)
           [] expr.k = "Array" -> compileArray(cs, expr)
           [] expr.k = "Index" -> compileIndex(cs, expr)
           [] OTHER -> Throw(cs, "Unknown expression type")

\* for (const auto &arg : args) compileExpr(arg);
compileExprs(cs, exprs) ==
    IF exprs = <<>> \/ cs.err # "" THEN cs
    ELSE compileExprs(compileExpr(cs, Head(exprs)), Tail(exprs))

\* ------------------------------------------------------------------------
\* Statements (compiler/compiler.cpp)
\* ------------------------------------------------------------------------

RECURSIVE compileStmt(_, _)
RECURSIVE compileStmts(_, _)
RECURSIVE compileFunction(_, _, _)
RECURSIVE countLocals(_)

\* compileVarDecl without an initializer: the default value of the type.
defaultValue(cs, type) ==
    CASE type = "int" -> emitPushInt(cs, 0)
      [] type = "float" -> emitPushFloat(cs, 0)
      [] type = "bool" -> emitPushBool(cs, FALSE)
      [] type = "str" -> emitPushString(cs, "")
      [] OTHER -> emitPushNil(cs)

\* Compiler::compileVarDecl: the initializer (or the default of the type) is
\* compiled first, then the name gets the next slot of the current context.
compileVarDecl(cs, stmt) ==
    Then(IF stmt.initializer # NoNode THEN compileExpr(cs, stmt.initializer)
         ELSE defaultValue(cs, stmt.type),
         LAMBDA c1 : emit(addLocal(c1, stmt.name), "STORE", currentNextLocal(c1)))

\* Compiler::compileAssign
compileAssign(cs, stmt) ==
    Then(compileExpr(cs, stmt.value), LAMBDA c1 :
        IF resolveLocal(c1, stmt.name) # UINT32_MAX
        THEN emit(c1, "STORE", resolveLocal(c1, stmt.name))
        ELSE IF resolveGlobal(c1, stmt.name) # UINT32_MAX
        THEN emit(c1, "STORE_GLOBAL", resolveGlobal(c1, stmt.name))
        ELSE Throw(c1, "Undefined variable: " \o stmt.name))

\* Compiler::compileExprStmt: no POP after a native Console.print/println call.
compileExprStmt(cs, stmt) ==
    Then(compileExpr(cs, stmt.expression), LAMBDA c1 :
        IF stmt.expression.k = "Call" /\ stmt.expression.isNative
           /\ (stmt.expression.className \o "." \o stmt.expression.methodName)
                  \in {"Console.println", "Console.print"}
        THEN c1
        ELSE emit(c1, "POP", 0))

\* Compiler::compileBlock: a default-constructed context is pushed for the block.
compileBlock(cs, stmt) ==
    Then(compileStmts([cs EXCEPT !.contextStack = Append(@, FunctionContext)],
                      stmt.statements),
         LAMBDA c1 : [c1 EXCEPT !.contextStack = SubSeq(@, 1, Len(@) - 1)])

\* Compiler::compileIf
compileIf(cs, stmt) ==
    Then(compileExpr(cs, stmt.condition), LAMBDA c1 :     \* thenJump = codeSize(c1)
    Then(compileStmt(emitJump(c1, "JMP_IFNOT"), stmt.thenBranch), LAMBDA c2 :
        IF stmt.elseBranch # NoNode
        THEN \* elseJump = codeSize(c2)
             Then(compileStmt(patchJump(emitJump(c2, "JMP"), codeSize(c1)), stmt.elseBranch),
                  LAMBDA c3 : patchJump(c3, codeSize(c2)))
        ELSE patchJump(c2, codeSize(c1))))

topLoop(cs) == cs.loopStack[Len(cs.loopStack)]

popLoop(cs) == [cs EXCEPT !.loopStack = SubSeq(@, 1, Len(@) - 1)]

\* The tail shared by compileWhile and compileFor: continue patches are set to
\* the current code size (when there are any).
patchContinues(cs) ==
    IF topLoop(cs).continuePatches # <<>>
    THEN patchJumps(cs, topLoop(cs).continuePatches, codeSize(cs))
    ELSE cs

patchBreaks(cs) ==
    IF topLoop(cs).breakPatches # <<>>
    THEN patchJumps(cs, topLoop(cs).breakPatches, codeSize(cs))
    ELSE cs

\* Compiler::compileWhile
compileWhile(cs, stmt) ==
    \* loopStart = codeSize(cs), exitJump = codeSize(c1)
    Then(compileExpr([cs EXCEPT !.loopStack = Append(@, LoopContext)], stmt.condition),
         LAMBDA c1 :
    Then(compileStmt(emitJump(c1, "JMP_IFNOT"), stmt.body), LAMBDA c2 :
         popLoop(patchBreaks(patchJump(emit(patchContinues(c2), "JMP", codeSize(cs)),
                                       codeSize(c1))))))

\* Where compileFor records the exit jump of the condition: in `loop`, the local
\* LoopContext of which loopStack holds a copy made before.  The copy on the
\* stack, which the break patching reads, does not get it.
forRecordExit(cs, exitJump) == cs

\* compileFor, the condition: the expression and the exit jump.
forCondition(cs, stmt) ==
    IF stmt.condition # NoNode
    THEN Then(compileExpr(cs, stmt.condition), LAMBDA cc :
              forRecordExit(emitJump(cc, "JMP_IFNOT"), codeSize(cc)))
    ELSE cs

\* compileFor, the increment: the expression and a POP.
forIncrement(cs, stmt) ==
    IF stmt.increment # NoNode
    THEN Then(compileExpr(cs, stmt.increment), LAMBDA ci : emit(ci, "POP", 0))
    ELSE cs

\* Compiler::compileFor
compileFor(cs, stmt) ==
    Then(IF stmt.initializer # NoNode THEN compileStmt(cs, stmt.initializer) ELSE cs,
         LAMBDA c0 :     \* loopStart = codeSize(c0)
    Then(forCondition([c0 EXCEPT !.loopStack = Append(@, LoopContext)], stmt), LAMBDA c2 :
    Then(compileStmt(c2, stmt.body), LAMBDA c3 :
    Then(forIncrement(patchContinues(c3), stmt), LAMBDA c5 :
         popLoop(patchBreaks(emit(c5, "JMP", codeSize(c0))))))))

\* Compiler::compileReturn
compileReturn(cs, stmt) ==
    Then(IF stmt.value # NoNode THEN compileExpr(cs, stmt.value) ELSE emitPushNil(cs),
         LAMBDA c1 : emit(c1, "RET", 0))

\* A break that is compiled to a jump whether a loop encloses it or not.
compileBreakAnywhere(cs) ==
    IF cs.loopStack = <<>> THEN emitJump(cs, "JMP")
    ELSE [emitJump(cs, "JMP") EXCEPT
            !.loopStack[Len(cs.loopStack)].breakPatches = Append(@, codeSize(cs))]

\* Compiler::compileBreak
compileBreak(cs) ==
    IF cs.loopStack = <<>> THEN Throw(cs, "Break outside loop")
    ELSE [emitJump(cs, "JMP") EXCEPT
            !.loopStack[Len(cs.loopStack)].breakPatches = Append(@, codeSize(cs))]

\* A continue that is recorded in the outermost loop instead of the innermost.
compileContinueOutermost(cs) ==
    IF cs.loopStack = <<>> THEN Throw(cs, "Continue outside loop")
    ELSE [emitJump(cs, "JMP") EXCEPT
            !.loopStack[1].continuePatches = Append(@, codeSize(cs))]

\* Compiler::compileContinue
compileContinue(cs) ==
    IF cs.loopStack = <<>> THEN Throw(cs, "Continue outside loop")
    ELSE [emitJump(cs, "JMP") EXCEPT
            !.loopStack[Len(cs.loopStack)].continuePatches = Append(@, codeSize(cs))]

\* compileArrayDecl: the element type of the array constant, "" when unsupported.
arrayElemType(type) ==
    CASE type = "int" -> "array_int"
      [] type = "float" -> "array_float"
      [] type = "str" -> "array_string"
      [] OTHER -> ""

\* Compiler::compileArrayDecl
compileArrayDecl(cs, stmt) ==
    IF arrayElemType(stmt.type) = "" THEN Throw(cs, "Unsupported array type: " \o stmt.type)
    ELSE Then(IF stmt.size # NoNode
              THEN Then(compileExpr(cs, stmt.size), LAMBDA cz :
                        compileNewArray(cz, arrayElemType(stmt.type), 0))
              ELSE IF stmt.initializer # NoNode
              THEN compileExpr(cs, stmt.initializer)
              ELSE compileNewArray(cs, arrayElemType(stmt.type), 0),
              LAMBDA c1 : emit(addLocal(c1, stmt.name), "STORE", currentNextLocal(c1)))

\* Compiler::countLocals: the number of VarDecl statements and of VarDecl
\* initializers of for loops, through blocks, if, while and for bodies.
countLocals(stmts) ==
    IF stmts = <<>> THEN 0
    ELSE IF Len(stmts) > 1
    THEN countLocals(SubSeq(stmts, 1, Len(stmts) \div 2))
         + countLocals(SubSeq(stmts, Len(stmts) \div 2 + 1, Len(stmts)))
    ELSE LET stmt == stmts[1]
             here == CASE stmt.k = "VarDecl" -> 1
                       [] stmt.k = "Block" -> countLocals(stmt.statements)
                       [] stmt.k = "If" ->
                            countLocals(<<stmt.thenBranch>>)
                            + (IF stmt.elseBranch # NoNode
                               THEN countLocals(<<stmt.elseBranch>>) ELSE 0)
                       [] stmt.k = "While" -> countLocals(<<stmt.body>>)
                       [] stmt.k = "For" ->
                            (IF stmt.initializer # NoNode /\ stmt.initializer.k = "VarDecl"
                             THEN 1 ELSE 0)
                            + countLocals(<<stmt.body>>)
                       [] OTHER -> 0
         IN here

\* Compiler::compileStmt
compileStmt(cs, stmt) ==
    IF cs.err # "" THEN cs
    ELSE CASE stmt.k = "VarDecl" -> compileVarDecl(cs, stmt)
           [] stmt.k = "Assign" -> compileAssign(cs, stmt)
           [] stmt.k = "ExprStmt" -> compileExprStmt(cs, stmt)
           [] stmt.k = "Block" -> compileBlock(cs, stmt)
           [] stmt.k = "If" -> compileIf(cs, stmt)
           [] stmt.k = "While" -> compileWhile(cs, stmt)
           [] stmt.k = "For" -> compileFor(cs, stmt)
           [] stmt.k = "Return" -> compileReturn(cs, stmt)
           [] stmt.k = "Break" -> compileBreak(cs)
           [] stmt.k = "Continue" -> compileContinue(cs)
           [] stmt.k = "Function" -> compileFunction(cs, stmt, "")
           [] stmt.k = "ArrayDecl" -> compileArrayDecl(cs, stmt)
           [] OTHER -> Throw(cs, "Unknown statement type")

\* for (const auto &s : stmts) compileStmt(s);
\* The statements are compiled in order, the first half before the second, so
\* that the depth of the evaluation grows with the logarithm of the length.
compileStmts(cs, stmts) ==
    IF stmts = <<>> \/ cs.err # "" THEN cs
    ELSE IF Len(stmts) = 1 THEN compileStmt(cs, stmts[1])
    ELSE compileStmts(compileStmts(cs, SubSeq(stmts, 1, Len(stmts) \div 2)),
                      SubSeq(stmts, Len(stmts) \div 2 + 1, Len(stmts)))

\* ------------------------------------------------------------------------
\* Functions and Compiler::compile
\* ------------------------------------------------------------------------

\* std::filesystem::path(sourceFileName).stem(): the module names of the model
\* hold neither a directory nor a dot, so the stem is the name itself.
Stem(sourceFileName) == sourceFileName

\* The name a function is compiled under (compileFunction, the renaming).
qualifiedName(name, sourceFileName) ==
    IF sourceFileName # "" /\ name # "Main"
    THEN Stem(sourceFileName) \o "_" \o name
    ELSE name

\* A registration that maps the names to the address after the function's first
\* instruction.
registerFunctionOffByOne(cs, name, functionName, funcAddr) ==
    [cs EXCEPT !.functionAddrs =
        Put(IF name # "Main" THEN Put(@, name, funcAddr + 1) ELSE @,
            functionName, funcAddr + 1)]

\* compileFunction, the registration: the (renamed) name and, for every function
\* but Main, the bare name are mapped to the address.
registerFunction(cs, name, functionName, funcAddr) ==
    LET fa1 == Put(cs.functionAddrs, functionName, funcAddr)
        fa2 == IF name # "Main" THEN Put(fa1, name, funcAddr) ELSE fa1
    IN [cs EXCEPT !.functionAddrs = fa2]

RECURSIVE addParams(_, _)
\* funcCtx.addLocal(parameter, true) for every parameter, in order.
addParams(ctx, params) ==
    IF params = <<>> THEN ctx
    ELSE addParams(ctxAddLocal(ctx, Head(params)), Tail(params))

\* The slotLog entries of the parameters of function serial.
paramLog(serial, params) ==
    [i \in 1..Len(params) |-> [fn |-> serial, name |-> params[i], slot |-> i - 1]]

\* compileFunction, the implicit return: PUSH nil; RET unless the last
\* instruction of the whole code is RET or HALT.
implicitReturn(cs) ==
    IF cs.bytecode.code = <<>>
       \/ cs.bytecode.code[codeSize(cs)].op \notin {"RET", "HALT"}
    THEN emit(emitPushNil(cs), "RET", 0)
    ELSE cs

\* compileFunction up to the body: the function is registered at the current
\* code size and a context holding the parameters is pushed.
enterFunction(cs, stmt, sourceFileName) ==
    [registerFunction(cs, stmt.name, qualifiedName(stmt.name, sourceFileName), codeSize(cs))
        EXCEPT !.contextStack =
                   Append(@, addParams([FunctionContext EXCEPT
                                            !.startAddr = codeSize(cs),
                                            !.paramCount = Len(stmt.parameters)],
                                       stmt.parameters)),
               !.fnSerial = cs.fnSerial + 1,
               !.fnPath = Append(@, cs.fnSerial + 1),
               !.slotLog = @ \o paramLog(cs.fnSerial + 1, stmt.parameters)]

\* compileFunction, after the body: the context is popped and the FunctionInfo
\* is appended to the function table.
leaveFunction(cs, info) ==
    [cs EXCEPT !.contextStack = SubSeq(@, 1, Len(@) - 1),
               !.fnPath = SubSeq(@, 1, Len(@) - 1),
               !.bytecode.functions = Append(@, info)]

\* Compiler::compileFunction
compileFunction(cs, stmt, sourceFileName) ==
    IF cs.err # "" THEN cs
    ELSE Then(compileStmts(enterFunction(cs, stmt, sourceFileName), stmt.body), LAMBDA c3 :
              leaveFunction(implicitReturn(c3),
                            FunctionInfo(qualifiedName(stmt.name, sourceFileName),
                                         codeSize(cs), Len(stmt.parameters),
                                         Len(stmt.parameters) + countLocals(stmt.body))))

isFunction(stmt, main) ==
    stmt.k = "Function" /\ ((stmt.name = "Main") <=> main)

RECURSIVE compileNonMain(_, _)
\* Compiler::compile, first loop: every top-level function not named Main, in order.
compileNonMain(cs, ast) ==
    IF ast = <<>> \/ cs.err # "" THEN cs
    ELSE compileNonMain(IF isFunction(Head(ast), FALSE)
                        THEN compileFunction(cs, Head(ast), "") ELSE cs,
                        Tail(ast))

hasMainFunction(ast) == \E i \in 1..Len(ast) : isFunction(ast[i], TRUE)

firstMain(ast) ==
    ast[CHOOSE i \in 1..Len(ast) : isFunction(ast[i], TRUE)
                                    /\ \A j \in 1..(i - 1) : ~isFunction(ast[j], TRUE)]

\* A second loop without the check that follows it: no Main, no exception.
compileMainUnchecked(cs, ast) ==
    IF cs.err # "" THEN cs
    ELSE IF hasMainFunction(ast) THEN compileFunction(cs, firstMain(ast), "")
    ELSE cs

\* Compiler::compile, second loop and the check after it: the first function
\* named Main is compiled; without one the compiler throws.
compileMain(cs, ast) ==
    IF cs.err # "" THEN cs
    ELSE IF hasMainFunction(ast) THEN compileFunction(cs, firstMain(ast), "")
    ELSE Throw(cs, "Main function not found")

\* A compiler that ends the code without HALT.
appendNoHalt(cs) == cs

\* Compiler::compile, the end: HALT unless the code ends in HALT.
appendHalt(cs) ==
    IF cs.err # "" THEN cs
    ELSE IF cs.bytecode.code = <<>> \/ cs.bytecode.code[codeSize(cs)].op # "HALT"
    THEN emit(cs, "HALT", 0)
    ELSE cs

\* Compiler::compile
compile(cs, ast) == appendHalt(compileMain(compileNonMain(cs, ast), ast))

\* ------------------------------------------------------------------------
\* The VM (vm/vm.cpp).  The operations are operators over a machine record m
\* holding the fields of TVM::VM; err is the message of the runtime_error
\* thrown out of the instruction, "" when none was.  out is what was written
\* to stdout.
\* ------------------------------------------------------------------------


\* VM::runtimeError
runtimeError(m, msg) == [m EXCEPT !.err = msg]

\* VM::push
push(m, val) == IF m.err # "" THEN m ELSE [m EXCEPT !.stack = Append(@, val)]

\* VM::pop: the machine after the pop and the value popped.
pop(m) ==
    IF m.err # "" THEN [m |-> m, v |-> NilVal]
    ELSE IF m.stack = <<>> THEN [m |-> runtimeError(m, "Stack underflow"), v |-> NilVal]
    ELSE [m |-> [m EXCEPT !.stack = SubSeq(@, 1, Len(@) - 1)], v |-> m.stack[Len(m.stack)]]

\* program->strings.push_back(s); push(Value(s, idx))
pushNewString(m, s) ==
    IF m.err # "" THEN m
    ELSE [m EXCEPT !.program.strings = Append(@, s),
                   !.stack = Append(@, StrVal(Len(m.program.strings)))]

\* C++ integer division and remainder truncate toward zero.
TruncDiv(a, b) ==
    LET q == (IF a < 0 THEN -a ELSE a) \div (IF b < 0 THEN -b ELSE b)
    IN IF (a < 0) # (b < 0) THEN -q ELSE q

TruncMod(a, b) == a - b * TruncDiv(a, b)

\* case OP_PUSH of executeInstruction
opPush(m, index) ==
    IF index >= Len(m.program.constants)
    THEN runtimeError(m, "Constant index out of bounds")
    ELSE push(m, m.program.constants[index + 1])

\* case OP_DUP
opDup(m) ==
    IF m.stack = <<>> THEN runtimeError(m, "Stack peek out of bounds")
    ELSE push(m, m.stack[Len(m.stack)])

\* case OP_SWAP
opSwap(m) ==
    LET a == pop(m)
        b == pop(a.m)
    IN push(push(b.m, a.v), b.v)

\* VM::opAdd
opAdd(m) ==
    LET pb == pop(m)
        pa == pop(pb.m)
        a == pa.v
        b == pb.v
    IN IF pa.m.err # "" THEN pa.m
       ELSE IF a.t = "int" /\ b.t = "int" THEN push(pa.m, IntVal(a.v + b.v))
       ELSE IF a.t \in {"int", "float"} /\ b.t \in {"int", "float"}
       THEN push(pa.m, FloatVal(a.v + b.v))
       ELSE IF a.t = "string" \/ b.t = "string"
       THEN pushNewString(pa.m, toString(a, pa.m.program.strings)
                                \o toString(b, pa.m.program.strings))
       ELSE push(pa.m, NilVal)

\* A subtraction or multiplication that takes an int with a float, as opAdd does.
opArithMixed(m, what) ==
    LET pb == pop(m)
        pa == pop(pb.m)
    IN IF pa.m.err # "" THEN pa.m
       ELSE IF pa.v.t \in {"int", "float"} /\ pb.v.t \in {"int", "float"}
       THEN push(pa.m, Val(IF pa.v.t = pb.v.t THEN pa.v.t ELSE "float",
                           IF what = "subtraction" THEN pa.v.v - pb.v.v
                           ELSE pa.v.v * pb.v.v))
       ELSE runtimeError(pa.m, "Invalid types for " \o what)

\* VM::opSub, VM::opMul: both int or both float.
opArith(m, what) ==
    LET pb == pop(m)
        pa == pop(pb.m)
    IN IF pa.m.err # "" THEN pa.m
       ELSE IF pa.v.t = pb.v.t /\ pa.v.t \in {"int", "float"}
       THEN push(pa.m, Val(pa.v.t, IF what = "subtraction" THEN pa.v.v - pb.v.v
                                   ELSE pa.v.v * pb.v.v))
       ELSE runtimeError(pa.m, "Invalid types for " \o what)

\* VM::opDiv: the zero test comes before the type test.  (The floats of the
\* model are whole; a float quotient is truncated.)
opDiv(m) ==
    LET pb == pop(m)
        pa == pop(pb.m)
    IN IF pa.m.err # "" THEN pa.m
       ELSE IF pb.v.t \in {"int", "float"} /\ pb.v.v = 0
       THEN runtimeError(pa.m, "Division by zero")
       ELSE IF pa.v.t = pb.v.t /\ pa.v.t \in {"int", "float"}
       THEN push(pa.m, Val(pa.v.t, TruncDiv(pa.v.v, pb.v.v)))
       ELSE runtimeError(pa.m, "Invalid types for division")

\* VM::opMod
opMod(m) ==
    LET pb == pop(m)
        pa == pop(pb.m)
    IN IF pa.m.err # "" THEN pa.m
       ELSE IF pa.v.t = "int" /\ pb.v.t = "int"
       THEN (IF pb.v.v = 0 THEN runtimeError(pa.m, "Modulo by zero")
             ELSE push(pa.m, IntVal(TruncMod(pa.v.v, pb.v.v))))
       ELSE runtimeError(pa.m, "Invalid types for modulo")

\* VM::opNeg
opNeg(m) ==
    LET pa == pop(m)
    IN IF pa.m.err # "" THEN pa.m
       ELSE IF pa.v.t \in {"int", "float"} THEN push(pa.m, Val(pa.v.t, -pa.v.v))
       ELSE runtimeError(pa.m, "Invalid type for negation")

\* VM::opInc, VM::opDec: the top of the stack is changed in place.
opIncDec(m, d, what) ==
    IF m.stack = <<>> THEN runtimeError(m, "Stack peek out of bounds")
    ELSE IF m.stack[Len(m.stack)].t \in {"int", "float"}
    THEN [m EXCEPT !.stack[Len(m.stack)].v = @ + d]
    ELSE runtimeError(m, "Invalid type for " \o what)

\* An equality that compares the values, type and payload.
opEqTyped(m, negate) ==
    LET pb == pop(m)
        pa == pop(pb.m)
        same == pa.v = pb.v
    IN IF pa.m.err # "" THEN pa.m
       ELSE push(pa.m, BoolVal(IF negate THEN ~same ELSE same))

\* VM::opEq, VM::opNeq: the string forms are compared.
opEq(m, negate) ==
    LET pb == pop(m)
        pa == pop(pb.m)
        same == toString(pa.v, m.program.strings) = toString(pb.v, m.program.strings)
    IN IF pa.m.err # "" THEN pa.m
       ELSE push(pa.m, BoolVal(IF negate THEN ~same ELSE same))

\* VM::opLt, opLte, opGt, opGte
opRel(m, op) ==
    LET pb == pop(m)
        pa == pop(pb.m)
    IN IF pa.m.err # "" THEN pa.m
       ELSE IF pa.v.t = pb.v.t /\ pa.v.t \in {"int", "float"}
       THEN push(pa.m, BoolVal(CASE op = "LT" -> pa.v.v < pb.v.v
                                 [] op = "LTE" -> pa.v.v <= pb.v.v
                                 [] op = "GT" -> pa.v.v > pb.v.v
                                 [] op = "GTE" -> pa.v.v >= pb.v.v))
       ELSE runtimeError(pa.m, "Invalid types for comparison")

\* VM::opAnd, VM::opOr
opAndOr(m, isAnd) ==
    LET pb == pop(m)
        pa == pop(pb.m)
    IN IF pa.m.err # "" THEN pa.m
       ELSE push(pa.m, BoolVal(IF isAnd THEN isTruthy(pa.v) /\ isTruthy(pb.v)
                               ELSE isTruthy(pa.v) \/ isTruthy(pb.v)))

\* VM::opNot
opNot(m) ==
    LET pa == pop(m)
    IN IF pa.m.err # "" THEN pa.m ELSE push(pa.m, BoolVal(~isTruthy(pa.v)))

\* VM::opLoad: the operand indexes the locals vector itself.
opLoad(m, index) ==
    IF index >= Len(m.locals) THEN runtimeError(m, "Local variable index out of bounds")
    ELSE push(m, m.locals[index + 1])

\* VM::opStore: the top of the stack is copied, not popped.
opStore(m, index) ==
    IF index >= Len(m.locals) THEN runtimeError(m, "Local variable index out of bounds")
    ELSE IF m.stack = <<>> THEN runtimeError(m, "Stack peek out of bounds")
    ELSE [m EXCEPT !.locals[index + 1] = m.stack[Len(m.stack)]]

\* vector::resize: cut, or padded with default (nil) values.
resize(vec, n) == [i \in 1..n |-> IF i <= Len(vec) THEN vec[i] ELSE NilVal]

\* VM::opLoadGlobal
opLoadGlobal(m, index) ==
    LET g == IF index >= Len(m.globals) THEN resize(m.globals, index + 1) ELSE m.globals
    IN push([m EXCEPT !.globals = g], g[index + 1])

\* VM::opStoreGlobal
opStoreGlobal(m, index) ==
    LET g == IF index >= Len(m.globals) THEN resize(m.globals, index + 1) ELSE m.globals
    IN IF m.stack = <<>> THEN runtimeError([m EXCEPT !.globals = g], "Stack peek out of bounds")
       ELSE [m EXCEPT !.globals = [g EXCEPT ![index + 1] = m.stack[Len(m.stack)]]]

\* VM::opJmp
opJmp(m, address) ==
    IF m.err # "" THEN m
    ELSE IF address >= Len(m.program.code) THEN runtimeError(m, "Jump address out of bounds")
    ELSE [m EXCEPT !.pc = address]

\* VM::opJmpIf
opJmpIf(m, address) ==
    LET cond == pop(m)
    IN IF cond.m.err # "" THEN cond.m
       ELSE IF isTruthy(cond.v) THEN opJmp(cond.m, address) ELSE cond.m

\* VM::opJmpIfNot
opJmpIfNot(m, address) ==
    LET cond == pop(m)
    IN IF cond.m.err # "" THEN cond.m
       ELSE IF ~isTruthy(cond.v) THEN opJmp(cond.m, address) ELSE cond.m

\* A call frame (VM::CallFrame); func is the function-table entry pointed to.
CallFrame(returnAddr, localStart, argCount, func) ==
    [returnAddr |-> returnAddr, localStart |-> localStart, argCount |-> argCount,
     func |-> func]

\* callFunction, first loop: the arguments are popped, last first, into the
\* slots localStart + i of the locals vector.
argsToLocals(m, localStart, arity) ==
    [m EXCEPT !.locals = [i \in 1..Len(@) |->
                             IF i > localStart /\ i <= localStart + arity
                             THEN m.stack[Len(m.stack) - arity + (i - localStart)]
                             ELSE @[i]],
              !.stack = SubSeq(@, 1, Len(@) - arity)]

\* callFunction, second loop: arity more values are removed from the stack,
\* as far as there are any.
dropArgs(m, arity) ==
    [m EXCEPT !.stack = SubSeq(@, 1, IF Len(@) > arity THEN Len(@) - arity ELSE 0)]

\* VM::callFunction.  A function table entry with fewer locals than parameters
\* makes the first loop write past the end of the locals vector (undefined
\* behaviour); the images of this model have none, and the case is an error here.
callFunction(m, funcIndex) ==
    LET fs == m.program.functions
        found == {i \in 1..Len(fs) : fs[i].address = funcIndex}
        func == fs[CHOOSE i \in found : \A j \in found : i <= j]
        frame == CallFrame(m.pc + 1, Len(m.locals), func.arity, func)
        m1 == [m EXCEPT !.callStack = Append(@, frame),
                        !.locals = resize(@, frame.localStart + func.locals)]
    IN IF found = {} THEN runtimeError(m, "Function not found at address")
       ELSE IF Len(m.stack) < func.arity
       THEN runtimeError(m, "Not enough arguments for function " \o func.name)
       ELSE IF func.locals < func.arity
       THEN runtimeError(m1, "undefined behaviour: write past the end of locals")
       ELSE [dropArgs(argsToLocals(m1, frame.localStart, func.arity), func.arity)
                EXCEPT !.pc = func.address]

\* A return that leaves the locals of the callee in place.
returnFromFunctionKeeping(m) ==
    IF m.callStack = <<>> THEN [m EXCEPT !.running = FALSE]
    ELSE LET frame == m.callStack[Len(m.callStack)]
             m1 == [m EXCEPT !.callStack = SubSeq(@, 1, Len(@) - 1)]
             returnValue == IF m1.stack # <<>> THEN m1.stack[Len(m1.stack)] ELSE NilVal
             m2 == IF m1.stack # <<>> THEN pop(m1).m ELSE m1
         IN IF frame.returnAddr = UINT32_MAX THEN [m1 EXCEPT !.running = FALSE]
            ELSE push([m2 EXCEPT !.pc = frame.returnAddr], returnValue)

\* VM::returnFromFunction
returnFromFunction(m) ==
    IF m.callStack = <<>> THEN [m EXCEPT !.running = FALSE]
    ELSE LET frame == m.callStack[Len(m.callStack)]
             m1 == [m EXCEPT !.callStack = SubSeq(@, 1, Len(@) - 1)]
             returnValue == IF m1.stack # <<>> THEN m1.stack[Len(m1.stack)] ELSE NilVal
             m2 == IF m1.stack # <<>> THEN pop(m1).m ELSE m1
         IN IF frame.returnAddr = UINT32_MAX THEN [m1 EXCEPT !.running = FALSE]
            ELSE push([m2 EXCEPT !.locals = resize(@, frame.localStart),
                                 !.pc = frame.returnAddr],
                      returnValue)

\* The host callbacks VM::initNativeFunctions registers.
nativeFuncs ==
    {"Console.println", "Console.print", "System.command", "System.clear",
     "System.pause", "System.platform", "System.env", "IO.input", "IO.toInt",
     "IO.toFloat", "Str.array", "Str.length", "Random.int"}

\* What the host hands to a callback: the line read, the exit status, the
\* variable's value ("" for an unset variable), the number parsed (-1 when the
\* text is no number).
HostResults == {[line |-> "", num |-> -1], [line |-> "x", num |-> 1]}

\* One host callback on the machine (the lambdas of initNativeFunctions).
native(m, name, host) ==
    LET p == pop(m)
        strs == m.program.strings
    IN IF p.m.err # "" /\ name \in {"Console.println", "Console.print", "System.command",
                                     "System.pause", "System.env", "IO.input",
                                     "IO.toInt", "IO.toFloat", "Str.length"}
       THEN p.m
       ELSE
       CASE name = "Console.println" ->
              push([p.m EXCEPT !.out = Append(@, toString(p.v, strs) \o "\n")], NilVal)
         [] name = "Console.print" ->
              push([p.m EXCEPT !.out = Append(@, toString(p.v, strs))], NilVal)
         [] name = "System.command" -> push(p.m, IntVal(host.num))
         [] name = "System.clear" -> push(m, NilVal)
         [] name = "System.pause" ->
              push([p.m EXCEPT !.out = Append(@, IF p.v.t # "nil" THEN toString(p.v, strs)
                                                 ELSE "Press Enter to continue...")],
                   NilVal)
         [] name = "System.platform" -> pushNewString(m, "linux")
         [] name = "System.env" ->
              IF host.line # "" THEN pushNewString(p.m, host.line) ELSE push(p.m, NilVal)
         [] name = "IO.input" ->
              pushNewString([p.m EXCEPT !.out = IF p.v.t # "nil"
                                                THEN Append(@, toString(p.v, strs)) ELSE @],
                            host.line)
         [] name = "IO.toInt" ->
              IF host.num < 0 THEN runtimeError(p.m, "Failed to convert string to int")
              ELSE push(p.m, IntVal(host.num))
         [] name = "IO.toFloat" ->
              IF host.num < 0 THEN runtimeError(p.m, "Failed to convert string to float")
              ELSE push(p.m, FloatVal(host.num))
         [] name = "Str.array" -> push(m, NilVal)
         [] name = "Str.length" -> push(p.m, IntVal(0))
         [] name = "Random.int" -> push(m, IntVal(host.num))
         [] OTHER -> m

\* A CALL_NATIVE that skips an import no callback is registered for.
callNativeLenient(m, nativeIndex, host) ==
    IF nativeIndex >= Len(m.program.nativeImports)
    THEN runtimeError(m, "Native import index out of bounds")
    ELSE IF m.program.nativeImports[nativeIndex + 1] \notin nativeFuncs
    THEN m
    ELSE native(m, m.program.nativeImports[nativeIndex + 1], host)

\* VM::callNative
callNative(m, nativeIndex, host) ==
    IF nativeIndex >= Len(m.program.nativeImports)
    THEN runtimeError(m, "Native import index out of bounds")
    ELSE IF m.program.nativeImports[nativeIndex + 1] \notin nativeFuncs
    THEN runtimeError(m, "Native function not implemented: "
                         \o m.program.nativeImports[nativeIndex + 1])
    ELSE native(m, m.program.nativeImports[nativeIndex + 1], host)

\* VM::opLoadIndex (a stub: nil)
opLoadIndex(m) ==
    LET index == pop(m)
        array == pop(index.m)
    IN IF array.m.err # "" THEN array.m
       ELSE IF index.v.t # "int" THEN runtimeError(array.m, "Array index must be integer")
       ELSE push(array.m, NilVal)

\* VM::opStoreIndex (a stub: the value stays)
opStoreIndex(m) ==
    LET value == pop(m)
        index == pop(value.m)
        array == pop(index.m)
    IN IF array.m.err # "" THEN array.m
       ELSE IF index.v.t # "int" THEN runtimeError(array.m, "Array index must be integer")
       ELSE push(array.m, value.v)

\* VM::opPrint / VM::opPrintln
opPrint(m, newline) ==
    LET p == pop(m)
    IN IF p.m.err # "" THEN p.m
       ELSE [p.m EXCEPT !.out = Append(@, toString(p.v, m.program.strings)
                                          \o (IF newline THEN "\n" ELSE ""))]

\* A HALT that leaves the loop running.
opHaltIgnored(m) == m

\* VM::opHalt
opHalt(m) == [m EXCEPT !.running = FALSE]

\* VM::executeInstruction
executeInstruction(m, instr, host) ==
    LET op == instr.op
        x == instr.operand
    IN CASE op = "PUSH" -> opPush(m, x)
         [] op = "POP" -> pop(m).m
         [] op = "DUP" -> opDup(m)
         [] op = "SWAP" -> opSwap(m)
         [] op = "ADD" -> opAdd(m)
         [] op = "SUB" -> opArith(m, "subtraction")
         [] op = "MUL" -> opArith(m, "multiplication")
         [] op = "DIV" -> opDiv(m)
         [] op = "MOD" -> opMod(m)
         [] op = "NEG" -> opNeg(m)
         [] op = "INC" -> opIncDec(m, 1, "increment")
         [] op = "DEC" -> opIncDec(m, -1, "decrement")
         [] op = "EQ" -> opEq(m, FALSE)
         [] op = "NEQ" -> opEq(m, TRUE)
         [] op = "LT" -> opRel(m, op)
         [] op = "LTE" -> opRel(m, op)
         [] op = "GT" -> opRel(m, op)
         [] op = "GTE" -> opRel(m, op)
         [] op = "AND" -> opAndOr(m, TRUE)
         [] op = "OR" -> opAndOr(m, FALSE)
         [] op = "NOT" -> opNot(m)
         [] op = "LOAD" -> opLoad(m, x)
         [] op = "STORE" -> opStore(m, x)
         [] op = "LOAD_GLOBAL" -> opLoadGlobal(m, x)
         [] op = "STORE_GLOBAL" -> opStoreGlobal(m, x)
         [] op = "JMP" -> opJmp(m, x)
         [] op = "JMP_IF" -> opJmpIf(m, x)
         [] op = "JMP_IFNOT" -> opJmpIfNot(m, x)
         [] op = "CALL" -> callFunction(m, x)
         [] op = "RET" -> returnFromFunction(m)
         [] op = "CALL_NATIVE" -> callNative(m, x, host)
         [] op = "NEW_ARRAY" -> push(m, NilVal)
         [] op = "LOAD_INDEX" -> opLoadIndex(m)
         [] op = "STORE_INDEX" -> opStoreIndex(m)
         [] op = "ARRAY_LEN" -> push(pop(m).m, IntVal(0))
         [] op = "PRINT" -> opPrint(m, FALSE)
         [] op = "READ" -> pushNewString(m, host.line)
         [] op = "PRINTLN" -> opPrint(m, TRUE)
         [] op = "HALT" -> opHalt(m)
         [] OTHER -> runtimeError(m, "Unknown opcode")

\* The opcodes after which the dispatch loop leaves pc alone.
noAdvance == {"JMP", "JMP_IF", "JMP_IFNOT", "CALL", "RET"}

\* One iteration of the loop of VM::execute: the instruction at pc is executed,
\* then pc is incremented unless its opcode is a jump, CALL or RET.  An
\* exception leaves the loop at once.
dispatch(m, host) ==
    LET instr == m.program.code[m.pc + 1]
        m1 == executeInstruction(m, instr, host)
    IN IF m1.err # "" THEN m1
       ELSE IF instr.op \notin noAdvance THEN [m1 EXCEPT !.pc = @ + 1]
       ELSE m1

\* The first function-table entry named Main, as VM::execute looks it up.
hasMainEntry(functions) == \E i \in 1..Len(functions) : functions[i].name = "Main"

mainEntry(functions) ==
    functions[CHOOSE i \in 1..Len(functions) :
                  functions[i].name = "Main" /\ \A j \in 1..(i - 1) : functions[j].name # "Main"]

\* VM::execute up to the dispatch loop: the state is cleared, Main is looked up,
\* the bootstrap frame is pushed.
executeStart(bytecode) ==
    LET m0 == [program |-> bytecode, running |-> TRUE, pc |-> 0, stack |-> <<>>,
               globals |-> <<>>, locals |-> <<>>, callStack |-> <<>>, err |-> "",
               out |-> <<>>]
        mainFunc == mainEntry(bytecode.functions)
    IN IF ~hasMainEntry(bytecode.functions) THEN runtimeError(m0, "Main function not found")
       ELSE [m0 EXCEPT !.callStack = <<CallFrame(UINT32_MAX, 0, 0, mainFunc)>>,
                       !.locals = resize(<<>>, mainFunc.locals),
                       !.pc = mainFunc.address]

\* ------------------------------------------------------------------------
\* The programs of the model
\* ------------------------------------------------------------------------

print(e) == ExprStmt(Call("Console", "print", <<e>>, TRUE))
userCall(name, args) == Call("", name, args, FALSE)

DeclA == VarDecl("int", "a", LitInt(1))
DeclB == VarDecl("int", "b", LitInt(2))
DeclC == VarDecl("int", "c", LitInt(0))

Leaves == {DeclB, print(Variable("a")), Break, Continue}

\* The control-flow statements around one inner statement s: the body is the
\* block {s} or the block {s break;}.
Around(s) ==
    LET Bodies == {Block(<<s>>), Block(<<s, Break>>)}
    IN UNION {
         {If(LitBool(TRUE), b, NoNode),
          If(LitBool(FALSE), b, Block(<<print(LitInt(9))>>)),
          While(LitBool(FALSE), b),
          While(LitBool(TRUE), b),
          For(DeclC, LitBool(FALSE), Variable("c"), b),
          For(NoNode, NoNode, NoNode, b)} : b \in Bodies}

RECURSIVE Stmts(_)
\* The statements of nesting depth at most d.
Stmts(d) == IF d = 0 THEN Leaves ELSE Leaves \cup UNION {Around(s) : s \in Stmts(d - 1)}

\* Main declares a and holds one generated statement.
ControlPrograms == {<<Function("Main", <<>>, <<DeclA, s>>)>> : s \in Stmts(MaxNest)}

\* Callees.
FunId == Function("f", <<"a">>, <<Return(Variable("a"))>>)
FunLocal == Function("f", <<"a">>, <<VarDecl("int", "b", LitInt(7)), Return(Variable("b"))>>)
FunTwo == Function("f", <<"a", "b">>, <<Return(Binary(Variable("a"), "-", Variable("b")))>>)
FunEmpty == Function("f", <<>>, <<>>)
FunBad == Function("f", <<>>, <<ExprStmt(Variable("x"))>>)
FunRec == Function("f", <<"a">>, <<Return(userCall("f", <<Variable("a")>>))>>)
FunG == Function("g", <<>>, <<print(LitStr("G")), Return(LitInt(1))>>)

Libraries ==
    {<<>>, <<FunId>>, <<FunLocal>>, <<FunTwo>>, <<FunEmpty>>, <<FunBad>>, <<FunRec>>,
     <<FunEmpty, FunId>>, <<FunId, FunEmpty>>}

ArgLists == {<<>>, <<LitInt(4)>>, <<LitInt(4), LitInt(5)>>}

CallStmts ==
    UNION {{ExprStmt(userCall("f", args)),
            print(Binary(LitInt(3), "+", userCall("f", args))),
            VarDecl("int", "x", userCall("f", args))} : args \in ArgLists}

\* Main calls f at once, after a declaration, or after declaring f inside its body.
CallBodies ==
    {<<c>> : c \in CallStmts} \cup {<<DeclA, c>> : c \in CallStmts}
    \cup {<<FunId, c>> : c \in CallStmts}

\* A library followed by a Main that calls f, and the library alone (no Main).
CallPrograms ==
    {lib \o <<Function("Main", <<>>, body)>> : lib \in Libraries, body \in CallBodies}
    \cup Libraries

\* print(l op r) for the two short-circuit operators; g() prints before it returns.
LogicalOps == {"&&", "||"}
LogicalLefts == {LitInt(0), LitInt(5), LitBool(FALSE), LitNil}
LogicalRights == {LitInt(7), LitInt(0), userCall("g", <<>>)}

LogicalProbe(l, op, r) == <<FunG, Function("Main", <<>>, <<print(Logical(l, op, r))>>)>>

LogicalPrograms ==
    {LogicalProbe(l, op, r) : l \in LogicalLefts, op \in LogicalOps, r \in LogicalRights}

\* Functions that declare arrays, and a Main of U8 declarations.
FunArray ==
    Function("f", <<"p">>, <<ArrayDecl("int", "b", LitInt(3), NoNode), Return(Variable("p"))>>)

ManyDecls == [i \in 1..U8 |-> VarDecl("int", "v", LitInt(0))]

DeclBodies ==
    {<<ArrayDecl("int", "b", LitInt(3), NoNode), DeclA, print(Variable("a"))>>,
     <<DeclA, ArrayDecl("str", "b", NoNode, NoNode)>>,
     <<DeclA, Block(<<DeclB, If(LitBool(TRUE), Block(<<DeclC>>), NoNode)>>),
       print(Variable("a"))>>,
     ManyDecls}

DeclPrograms ==
    {<<Function("Main", <<>>, body)>> : body \in DeclBodies}
    \cup {<<FunArray, Function("Main", <<>>, <<print(userCall("f", <<LitInt(4)>>))>>)>>}

\* print(l op r) for the arithmetic and the equality operators over operands
\* of every literal type, and the declaration int x = 1 / 0.
Operands ==
    {LitInt(6), LitInt(0), Lit("float", 2, ""), Lit("float", 0, ""), LitStr("6"),
     LitBool(TRUE), LitNil}

ArithOps == {"-", "*", "/", "%"}
EqualityOps == {"==", "!="}

EqualityProbe(l, op, r) == <<Function("Main", <<>>, <<print(Compare(l, op, r))>>)>>

DivZero == <<Function("Main", <<>>, <<VarDecl("int", "x", Binary(LitInt(1), "/", LitInt(0)))>>)>>

OperatorPrograms ==
    {<<Function("Main", <<>>, <<print(Binary(l, op, r)), print(LitInt(9))>>)>> :
        l \in Operands, op \in ArithOps, r \in Operands}
    \cup {EqualityProbe(l, op, r) :
            l \in Operands \cup {LitStr("nil")}, op \in EqualityOps,
            r \in Operands \cup {LitStr("nil")}}
    \cup {DivZero}

\* Programs with one semantic error: a variable that is read, assigned or
\* used after its block without a declaration in scope, and a call of a
\* function that is not registered, or not yet.
UndefinedRead == <<Function("Main", <<>>, <<DeclA, print(Variable("z"))>>)>>
UndefinedWrite == <<Function("Main", <<>>, <<DeclA, Assign("z", LitInt(1))>>)>>
OutOfScope == <<Function("Main", <<>>, <<Block(<<DeclB>>), print(Variable("b"))>>)>>
UnknownCall == <<Function("Main", <<>>, <<ExprStmt(userCall("h", <<>>))>>)>>
UnknownMethod == <<Function("Main", <<>>, <<ExprStmt(Call("Lib", "h", <<>>, FALSE))>>)>>
LaterCall ==
    <<Function("f", <<>>, <<Return(userCall("g", <<>>))>>), FunG,
      Function("Main", <<>>, <<print(userCall("f", <<>>))>>)>>

UndefinedVariables == {UndefinedRead, UndefinedWrite, OutOfScope}
UnknownFunctions == {UnknownCall, UnknownMethod, LaterCall}

\* What Parser::parseUnary builds for -e: a LogicalExpr with no left operand.
Negation(e) == Logical(NoNode, "-", e)

\* int x = -1; and print(-a).
NegationPrograms ==
    {<<Function("Main", <<>>, <<VarDecl("int", "x", Negation(LitInt(1)))>>)>>,
     <<Function("Main", <<>>, <<DeclA, print(Negation(Variable("a")))>>)>>}

\* int i = 0; while (i < 3) { Console.print(i); i = i + 1; }
CountingLoop ==
    <<Function("Main", <<>>,
        <<VarDecl("int", "i", LitInt(0)),
          While(Compare(Variable("i"), "<", LitInt(3)),
                Block(<<print(Variable("i")),
                        Assign("i", Binary(Variable("i"), "+", LitInt(1)))>>))>>)>>

\* Two nested loops, each a while or a for with the increment c, with a break
\* or a continue (bare or inside an if) in the inner loop and a break or a
\* continue in the outer loop, before or after the inner loop.
LoopKinds == {"while", "for"}
Exits == {"break", "continue"}

exitStmt(exit, guarded) ==
    LET s == IF exit = "break" THEN Break ELSE Continue
    IN IF guarded THEN If(LitBool(TRUE), Block(<<s>>), NoNode) ELSE s

loopOf(kind, body) ==
    IF kind = "while" THEN While(LitBool(TRUE), Block(body))
    ELSE For(DeclC, LitBool(TRUE), Variable("c"), Block(body))

NestedLoop(outer, inner, outerExit, innerExit, guarded, before) ==
    <<Function("Main", <<>>,
        <<loopOf(outer,
                 IF before
                 THEN <<exitStmt(outerExit, FALSE),
                        loopOf(inner, <<print(LitInt(1)), exitStmt(innerExit, guarded)>>)>>
                 ELSE <<loopOf(inner, <<print(LitInt(1)), exitStmt(innerExit, guarded)>>),
                        print(LitInt(2)), exitStmt(outerExit, FALSE)>>),
          print(LitInt(3))>>)>>

NestedLoops ==
    {NestedLoop(o, i, oe, ie, g, b) :
        o \in LoopKinds, i \in LoopKinds, oe \in Exits, ie \in Exits,
        g \in BOOLEAN, b \in BOOLEAN}

\* Programs whose Main does not end in an implicit return: an empty Main after a
\* function, and a Main whose last statement is an if that returns.
EmptyMain == <<FunId, Function("Main", <<>>, <<>>)>>

ReturnInIf(c) ==
    <<Function("Main", <<>>,
        <<print(LitInt(5)), If(LitBool(c), Block(<<Return(LitInt(1))>>), NoNode)>>)>>

EndingPrograms == {EmptyMain} \cup {ReturnInIf(c) : c \in BOOLEAN}

\* A Main of two statements without control flow (a declaration with and
\* without initializer, an expression statement, a print) and a final print.
PlainStatements ==
    {DeclA, VarDecl("int", "b", NoNode), ExprStmt(LitInt(4)), print(LitInt(1))}

PlainPrograms ==
    {<<Function("Main", <<>>, <<s, t, print(LitInt(9))>>)>> :
        s \in PlainStatements, t \in PlainStatements}

Programs ==
    ControlPrograms \cup CallPrograms \cup LogicalPrograms \cup DeclPrograms
    \cup OperatorPrograms \cup UndefinedVariables \cup UnknownFunctions
    \cup NegationPrograms \cup {CountingLoop} \cup NestedLoops \cup EndingPrograms
    \cup PlainPrograms

\* Hand-written images: code over a small instruction alphabet, with and
\* without a function-table entry named Main.
RawAlphabet ==
    {Instruction("PUSH", 0), Instruction("PUSH", 1), Instruction("PUSH", 2),
     Instruction("PUSH", 3), Instruction("DUP", 0), Instruction("SWAP", 0),
     Instruction("NEG", 0), Instruction("INC", 0), Instruction("AND", 0),
     Instruction("JMP_IF", 0), Instruction("JMP_IFNOT", 1), Instruction("JMP", 1),
     Instruction("STORE_GLOBAL", 1), Instruction("LOAD_GLOBAL", 0),
     Instruction("CALL", 0), Instruction("CALL_NATIVE", 0), Instruction("CALL_NATIVE", 1),
     Instruction("CALL_NATIVE", 2), Instruction("CALL_NATIVE", 3),
     Instruction("RET", 0), Instruction("HALT", 0), Instruction("OPCODE_0", 0)}

RECURSIVE CodesUpTo(_)
CodesUpTo(n) ==
    IF n = 0 THEN {<<>>}
    ELSE CodesUpTo(n - 1) \cup {Append(c, i) : c \in {x \in CodesUpTo(n - 1) : Len(x) = n - 1},
                                               i \in RawAlphabet}

RawTables ==
    {<<>>,
     <<FunctionInfo("f", 0, 0, 0)>>,
     <<FunctionInfo("Main", 0, 0, 1)>>,
     <<FunctionInfo("f", 0, 1, 1), FunctionInfo("Main", 1, 0, 0)>>}

RawImages ==
    {[BytecodeFile EXCEPT !.code = c, !.functions = t,
                          !.constants = <<IntVal(1), IntVal(0), NilVal, StrVal(0)>>,
                          !.strings = <<"s">>,
                          !.nativeImports = <<"IO.toInt", "Math.sqrt", "Console.print">>]
        : c \in CodesUpTo(MaxRaw), t \in RawTables}

\* ------------------------------------------------------------------------
\* The image file (shared/bytecode.cpp): a sequence of bytes
\* ------------------------------------------------------------------------

\* static_cast<char> of a byte.  The strings of the model are made of
\* letters, digits, the space, the dot and the underscore; any other byte
\* reads as '?'.
byteChar(b) ==
    CASE b \in 48..57 -> SubSeq("0123456789", b - 47, b - 47)
      [] b \in 65..90 -> SubSeq("ABCDEFGHIJKLMNOPQRSTUVWXYZ", b - 64, b - 64)
      [] b \in 97..122 -> SubSeq("abcdefghijklmnopqrstuvwxyz", b - 96, b - 96)
      [] b = 32 -> " "
      [] b = 46 -> "."
      [] b = 95 -> "_"
      [] OTHER -> "?"

\* The byte of a character of a std::string.
charByte(c) == IF c = "?" THEN 63 ELSE CHOOSE b \in 32..122 : byteChar(b) = c

\* The bytes of a std::string, in order.
stringBytes(s) == [i \in 1..Len(s) |-> charByte(SubSeq(s, i, i))]

RECURSIVE bytesString(_)
\* The std::string of a sequence of bytes.
bytesString(bytes) ==
    IF bytes = <<>> THEN ""
    ELSE bytesString(SubSeq(bytes, 1, Len(bytes) - 1)) \o byteChar(bytes[Len(bytes)])

\* enum OpCode: the byte of every opcode.
OpCodes ==
    (1 :> "PUSH") @@ (2 :> "POP") @@ (3 :> "DUP") @@ (4 :> "SWAP")
    @@ (16 :> "ADD") @@ (17 :> "SUB") @@ (18 :> "MUL") @@ (19 :> "DIV") @@ (20 :> "MOD")
    @@ (21 :> "NEG") @@ (22 :> "INC") @@ (23 :> "DEC")
    @@ (32 :> "EQ") @@ (33 :> "NEQ") @@ (34 :> "LT") @@ (35 :> "LTE") @@ (36 :> "GT")
    @@ (37 :> "GTE")
    @@ (48 :> "AND") @@ (49 :> "OR") @@ (50 :> "NOT")
    @@ (64 :> "LOAD") @@ (65 :> "STORE") @@ (66 :> "LOAD_GLOBAL") @@ (67 :> "STORE_GLOBAL")
    @@ (80 :> "JMP") @@ (81 :> "JMP_IF") @@ (82 :> "JMP_IFNOT") @@ (83 :> "CALL")
    @@ (84 :> "RET") @@ (85 :> "CALL_NATIVE")
    @@ (96 :> "NEW_ARRAY") @@ (97 :> "LOAD_INDEX") @@ (98 :> "STORE_INDEX")
    @@ (99 :> "ARRAY_LEN")
    @@ (112 :> "PRINT") @@ (113 :> "READ") @@ (114 :> "PRINTLN")
    @@ (255 :> "HALT")

\* static_cast<OpCode> of a byte: a byte that is no enumerator is an opcode
\* the VM does not know.
opcodeOf(b) == IF b \in DOMAIN OpCodes THEN OpCodes[b] ELSE "OPCODE_" \o NatStr(b)

\* static_cast<uint8_t> of an opcode.
opcodeByte(op) ==
    IF \E b \in DOMAIN OpCodes : OpCodes[b] = op
    THEN CHOOSE b \in DOMAIN OpCodes : OpCodes[b] = op
    ELSE CHOOSE b \in 0..(U8 - 1) : opcodeOf(b) = op

\* enum ValueType, TYPE_NIL = 0 first.
ValueTypes ==
    <<"nil", "int", "float", "bool", "string", "array_int", "array_float", "array_string">>

\* static_cast<ValueType> of a byte.
typeOf(b) == IF b < Len(ValueTypes) THEN ValueTypes[b + 1] ELSE "TYPE_" \o NatStr(b)

\* static_cast<uint8_t> of a value type.
typeByte(t) ==
    IF \E i \in 1..Len(ValueTypes) : ValueTypes[i] = t
    THEN (CHOOSE i \in 1..Len(ValueTypes) : ValueTypes[i] = t) - 1
    ELSE CHOOSE b \in 0..(U8 - 1) : typeOf(b) = t

\* A 32-bit word is kept as the integer of its low 31 bits minus 2^31 times
\* its top bit: the words below 2^31 are themselves, the words from 2^31 on
\* are negative.  In the image the words from 2^31 on are all held as
\* UINT32_MAX, the one such word the compiler writes.
u32(word) == IF word < 0 THEN UINT32_MAX ELSE word

\* The four bytes of the value, most significant first.
writeUint32BigEndian(value) ==
    IF value = UINT32_MAX THEN <<U8 - 1, U8 - 1, U8 - 1, U8 - 1>>
    ELSE <<(value \div (U8 * U8 * U8)) % U8, (value \div (U8 * U8)) % U8,
           (value \div U8) % U8, value % U8>>

\* writeUint32: the four bytes of the value, least significant first.
writeUint32(value) ==
    IF value = UINT32_MAX THEN <<U8 - 1, U8 - 1, U8 - 1, U8 - 1>>
    ELSE <<value % U8, (value \div U8) % U8, (value \div (U8 * U8)) % U8,
           (value \div (U8 * U8 * U8)) % U8>>

\* writeUint16
writeUint16(value) == <<value % U8, (value \div U8) % U8>>

RECURSIVE shifted(_, _)
\* value >> (i * 8) of a signed value (the shift keeps the sign).
shifted(value, i) == IF i = 0 THEN value ELSE shifted(value \div U8, i - 1)

\* writeInt64: the eight bytes of the two's complement, least significant first.
writeInt64(value) == [i \in 1..8 |-> shifted(value, i - 1) % U8]

RECURSIVE exponentOf(_)
\* The exponent of a whole number n >= 1: the e with 2^e <= n < 2^(e+1).
exponentOf(n) == IF n < 2 THEN 0 ELSE 1 + exponentOf(n \div 2)

RECURSIVE pow2(_)
pow2(e) == IF e = 0 THEN 1 ELSE 2 * pow2(e - 1)

magnitude(n) == IF n < 0 THEN -n ELSE n

\* The upper 32 bits of an IEEE 754 double (the sign, the 11 bits of the
\* exponent biased by 1023, the first 20 bits of the fraction) as four bytes,
\* least significant first.
doubleBytes(negative, exponent, fraction) ==
    <<fraction % U8,
      (fraction \div U8) % U8,
      (fraction \div (U8 * U8)) + 16 * ((1023 + exponent) % 16),
      ((1023 + exponent) \div 16) + (IF negative THEN 128 ELSE 0)>>

\* The upper 32 bits of the double of a whole number of magnitude below 2^20;
\* the lower 32 bits of such a double are zero.
doubleHigh(n) ==
    IF n = 0 THEN <<0, 0, 0, 0>>
    ELSE doubleBytes(n < 0, exponentOf(magnitude(n)),
                     (magnitude(n) - pow2(exponentOf(magnitude(n))))
                        * pow2(20 - exponentOf(magnitude(n))))

\* writeDouble: the eight bytes of the double as they lie in memory
\* (little-endian host).
writeDouble(value) == <<0, 0, 0, 0>> \o doubleHigh(value)

RECURSIVE concat(_)
\* The bytes of consecutive writes, in the order written.
concat(parts) ==
    IF parts = <<>> THEN <<>>
    ELSE concat(SubSeq(parts, 1, Len(parts) - 1)) \o parts[Len(parts)]

\* serialize, one instruction: the opcode byte and the operand.
instructionBytes(instr) == <<opcodeByte(instr.op)>> \o writeUint32(instr.operand)

\* The payload of one constant with a bool padded to eight bytes.
payloadBytesPadded(cst) ==
    CASE cst.t = "int" -> writeInt64(cst.v)
      [] cst.t = "float" -> writeDouble(cst.v)
      [] cst.t = "bool" -> <<IF cst.v # 0 THEN 1 ELSE 0, 0, 0, 0, 0, 0, 0, 0>>
      [] cst.t \in {"string", "array_int", "array_float", "array_string"} -> writeUint32(cst.v)
      [] cst.t = "nil" -> <<0, 0, 0, 0, 0, 0, 0, 0>>
      [] OTHER -> <<0, 0, 0, 0, 0, 0, 0, 0>>

\* serialize, the payload of one constant (the switch on cst.type).
payloadBytes(cst) ==
    CASE cst.t = "int" -> writeInt64(cst.v)
      [] cst.t = "float" -> writeDouble(cst.v)
      [] cst.t = "bool" -> <<IF cst.v # 0 THEN 1 ELSE 0>>
      [] cst.t \in {"string", "array_int", "array_float", "array_string"} -> writeUint32(cst.v)
      [] cst.t = "nil" -> <<0, 0, 0, 0, 0, 0, 0, 0>>
      [] OTHER -> <<0, 0, 0, 0, 0, 0, 0, 0>>

\* serialize, one constant: the type byte and the payload.
constantBytes(cst) == <<typeByte(cst.t)>> \o payloadBytes(cst)

\* serialize, one string: its length and its characters.
lengthPrefixed(str) == writeUint32(Len(str)) \o stringBytes(str)

\* serialize, a list of strings (the strings, one array of strings, the
\* native imports): the count and the strings.
stringsBytes(strs) ==
    writeUint32(Len(strs)) \o concat([i \in 1..Len(strs) |-> lengthPrefixed(strs[i])])

\* serialize, one array of ints: its length and the elements.
intArrayBytes(arr) ==
    writeUint32(Len(arr)) \o concat([i \in 1..Len(arr) |-> writeInt64(arr[i])])

\* serialize, one array of floats.
floatArrayBytes(arr) ==
    writeUint32(Len(arr)) \o concat([i \in 1..Len(arr) |-> writeDouble(arr[i])])

\* serialize, one function-table entry.
functionBytes(func) ==
    lengthPrefixed(func.name) \o writeUint32(func.address) \o <<func.arity, func.locals>>

\* serialize, the constants section.
constantsSection(constants) ==
    writeUint32(Len(constants))
    \o concat([i \in 1..Len(constants) |-> constantBytes(constants[i])])

\* BytecodeFile::serialize
serialize(image) ==
    writeUint32(image.magic) \o writeUint16(image.version) \o writeUint16(image.flags)
    \o writeUint32(Len(image.code))
    \o concat([i \in 1..Len(image.code) |-> instructionBytes(image.code[i])])
    \o constantsSection(image.constants)
    \o stringsBytes(image.strings)
    \o writeUint32(Len(image.intArrays))
    \o concat([i \in 1..Len(image.intArrays) |-> intArrayBytes(image.intArrays[i])])
    \o writeUint32(Len(image.floatArrays))
    \o concat([i \in 1..Len(image.floatArrays) |-> floatArrayBytes(image.floatArrays[i])])
    \o writeUint32(Len(image.stringArrays))
    \o concat([i \in 1..Len(image.stringArrays) |-> stringsBytes(image.stringArrays[i])])
    \o writeUint32(Len(image.functions))
    \o concat([i \in 1..Len(image.functions) |-> functionBytes(image.functions[i])])
    \o stringsBytes(image.nativeImports)

\* The state of BytecodeFile::deserialize on the bytes data: ptr as an offset
\* into data (end is Len(data)), the image being filled (a fresh
\* BytecodeFile), the list being read, and how the call ended: "" while it
\* runs, "true" or "false" for the value returned, "std::bad_alloc" when a
\* resize threw.  A byte read at or beyond the end is whatever the memory
\* after the buffer holds (beyond); overread records that such a read
\* happened.  heap is the largest number of elements a resize is granted,
\* UINT32_MAX when every resize succeeds.
Reader(data, beyond, heap) ==
    [data |-> data, ptr |-> 0, beyond |-> beyond, heap |-> heap, overread |-> FALSE,
     result |-> "", image |-> BytecodeFile, list |-> <<>>]

\* ptr + n > end
ends(d, n) == d.ptr + n > Len(d.data)

\* ptr + len > end for a 32-bit len (the sum is a pointer, it does not wrap).
endsWord(d, len) == len < 0 \/ d.ptr + len > Len(d.data)

\* ptr[i]
byteAt(d, i) == IF d.ptr + i < Len(d.data) THEN d.data[d.ptr + i + 1] ELSE d.beyond

\* ptr[0 .. n-1]
bytesAt(d, n) == [i \in 1..n |-> byteAt(d, i - 1)]

\* ptr += n after the n bytes at ptr were read.
consumed(d, n) == [d EXCEPT !.ptr = @ + n, !.overread = @ \/ d.ptr + n > Len(d.data)]

\* return false
refused(d) == [d EXCEPT !.result = "false"]

\* i < count for a 32-bit count.
below(i, count) == count < 0 \/ i < count

\* vector::resize(count): std::bad_alloc when the heap does not hold count elements.
resized(d, count) ==
    IF d.heap # UINT32_MAX /\ (count < 0 \/ count > d.heap)
    THEN [d EXCEPT !.result = "std::bad_alloc"]
    ELSE d

\* readUint32, the value: the four bytes at ptr, least significant first.
wordOf(bytes) ==
    bytes[1] + U8 * bytes[2] + U8 * U8 * bytes[3]
    + U8 * U8 * U8 * (IF bytes[4] < 128 THEN bytes[4] ELSE bytes[4] - U8)

readUint32(d) == wordOf(bytesAt(d, 4))

\* readUint16, the value.
readUint16(d) == byteAt(d, 0) + U8 * byteAt(d, 1)

\* Bits 16 to 31 of a 32-bit word times 5.
times5High(word) == ((word \div 65536) * 5 + ((word % 65536) * 5) \div 65536) % 65536

\* The low 32 bits of a 32-bit word times 5 (uint32_t arithmetic wraps).
times5(word) ==
    (((word % 65536) * 5) % 65536)
    + 65536 * (IF times5High(word) < 32768 THEN times5High(word)
               ELSE times5High(word) - 65536)

\* A payload the integers of the model do not hold: its bytes.
Bits(bytes) == [bits |-> bytes]

\* readInt64, the value of the eight bytes.
int64Of(bytes) ==
    IF bytes[4] < 128 /\ \A i \in 5..8 : bytes[i] = 0 THEN wordOf(SubSeq(bytes, 1, 4))
    ELSE IF bytes[4] >= 128 /\ \A i \in 5..8 : bytes[i] = U8 - 1
    THEN wordOf(SubSeq(bytes, 1, 4))
    ELSE Bits(bytes)

\* The whole number of a double from its sign, exponent and the first 20 bits
\* of its fraction, the rest of the fraction being zero.
wholeOf(bytes, negative, exponent, fraction) ==
    IF exponent \in 0..19 /\ fraction % pow2(20 - exponent) = 0
    THEN (IF negative THEN -1 ELSE 1) * (pow2(exponent) + fraction \div pow2(20 - exponent))
    ELSE Bits(bytes)

\* readDouble, the value of the eight bytes.
doubleOf(bytes) ==
    IF \A i \in 1..8 : bytes[i] = 0 THEN 0
    ELSE IF \E i \in 1..4 : bytes[i] # 0 THEN Bits(bytes)
    ELSE wholeOf(bytes, bytes[8] >= 128, (bytes[8] % 128) * 16 + bytes[7] \div 16 - 1023,
                 (bytes[7] % 16) * U8 * U8 + bytes[6] * U8 + bytes[5])

\* deserialize, the header: the size, the magic, version and flags.
readHeader(d) ==
    IF Len(d.data) < 8 THEN refused(d)
    ELSE IF ends(d, 8) THEN refused(d)
    ELSE IF readUint32(d) # 1413564748
    THEN refused([consumed(d, 4) EXCEPT !.image.magic = u32(readUint32(d))])
    ELSE [consumed(d, 8) EXCEPT !.image.magic = readUint32(d),
                                !.image.version = readUint16(consumed(d, 4)),
                                !.image.flags = readUint16(consumed(d, 6))]

RECURSIVE readInstructions(_, _, _)
\* deserialize, the loop of the code section.
readInstructions(d, i, size) ==
    IF ~below(i, size) THEN d
    ELSE IF ends(d, 1) THEN refused(d)
    ELSE readInstructions(
             [consumed(d, 5) EXCEPT
                 !.image.code = Append(@, Instruction(opcodeOf(byteAt(d, 0)),
                                                      u32(readUint32(consumed(d, 1)))))],
             i + 1, size)

\* deserialize, the code section after its size was read.
readCode(d, size) ==
    IF endsWord(d, times5(size)) THEN refused(d)
    ELSE IF resized(d, size).result # "" THEN resized(d, size)
    ELSE readInstructions(d, 0, size)

\* deserialize, the code section.
readCodeSection(d) ==
    IF d.result # "" THEN d
    ELSE IF ends(d, 4) THEN refused(d)
    ELSE readCode(consumed(d, 4), readUint32(d))

\* constants[i] is read: the constant and the bytes it took.
constantRead(d, cst, n) == [consumed(d, n) EXCEPT !.image.constants = Append(@, cst)]

\* deserialize, the payload of one constant (the switch on constants[i].type).
readPayload(d, type) ==
    CASE type = "int" ->
           IF ends(d, 8) THEN refused(d) ELSE constantRead(d, Val(type, int64Of(bytesAt(d, 8))), 8)
      [] type = "float" ->
           IF ends(d, 8) THEN refused(d) ELSE constantRead(d, Val(type, doubleOf(bytesAt(d, 8))), 8)
      [] type = "bool" ->
           IF ends(d, 1) THEN refused(d)
           ELSE constantRead(d, Val(type, IF byteAt(d, 0) # 0 THEN 1 ELSE 0), 1)
      [] type \in {"string", "array_int", "array_float", "array_string"} ->
           IF ends(d, 4) THEN refused(d) ELSE constantRead(d, Val(type, u32(readUint32(d))), 4)
      [] type = "nil" ->
           IF ends(d, 8) THEN refused(d) ELSE [constantRead(d, Val(type, 0), 0) EXCEPT !.ptr = @ + 8]
      [] OTHER ->
           IF ends(d, 8) THEN refused(d) ELSE [constantRead(d, Val(type, 0), 0) EXCEPT !.ptr = @ + 8]

RECURSIVE readConstants(_, _, _)
\* deserialize, the loop of the constants.
readConstants(d, i, constCount) ==
    IF d.result # "" \/ ~below(i, constCount) THEN d
    ELSE IF ends(d, 1) THEN refused(d)
    ELSE readConstants(readPayload(consumed(d, 1), typeOf(byteAt(d, 0))), i + 1, constCount)

\* deserialize, the constants section.
readConstantsSection(d) ==
    IF d.result # "" THEN d
    ELSE IF ends(d, 4) THEN refused(d)
    ELSE readConstants(resized(consumed(d, 4), readUint32(d)), 0, readUint32(d))

\* The list being read starts empty.
listing(d) == [d EXCEPT !.list = <<>>]

\* deserialize, one string of len bytes at ptr.
readChars(d, len) ==
    IF endsWord(d, len) THEN refused(d)
    ELSE [consumed(d, len) EXCEPT !.list = Append(@, bytesString(bytesAt(d, len)))]

\* deserialize, one string: its length and its characters.
readString(d) ==
    IF ends(d, 4) THEN refused(d) ELSE readChars(consumed(d, 4), readUint32(d))

RECURSIVE readStringList(_, _, _)
\* deserialize, the loop over the strings of a list.
readStringList(d, i, count) ==
    IF d.result # "" \/ ~below(i, count) THEN d
    ELSE readStringList(readString(d), i + 1, count)

\* deserialize, a list of strings: the count, the resize and the strings.
readStrings(d) ==
    IF ends(d, 4) THEN refused(d)
    ELSE readStringList(resized(listing(consumed(d, 4)), readUint32(d)), 0, readUint32(d))

\* deserialize, the strings section.
readStringsSection(d) ==
    IF d.result # "" THEN d
    ELSE [readStrings(d) EXCEPT !.image.strings = readStrings(d).list]

RECURSIVE readInt64s(_, _, _)
\* deserialize, the elements of one array of ints.
readInt64s(d, j, len) ==
    IF d.result # "" \/ ~below(j, len) THEN d
    ELSE IF ends(d, 8) THEN refused(d)
    ELSE readInt64s([consumed(d, 8) EXCEPT !.list = Append(@, int64Of(bytesAt(d, 8)))],
                    j + 1, len)

RECURSIVE readDoubles(_, _, _)
\* deserialize, the elements of one array of floats.
readDoubles(d, j, len) ==
    IF d.result # "" \/ ~below(j, len) THEN d
    ELSE IF ends(d, 8) THEN refused(d)
    ELSE readDoubles([consumed(d, 8) EXCEPT !.list = Append(@, doubleOf(bytesAt(d, 8)))],
                     j + 1, len)

\* deserialize, one array of the pool: its length, the resize, its elements.
readArray(d, pool) ==
    IF ends(d, 4) THEN refused(d)
    ELSE IF pool = "intArrays"
    THEN readInt64s(resized(listing(consumed(d, 4)), readUint32(d)), 0, readUint32(d))
    ELSE IF pool = "floatArrays"
    THEN readDoubles(resized(listing(consumed(d, 4)), readUint32(d)), 0, readUint32(d))
    ELSE readStrings(d)

\* The array read is the next one of the pool.
pooled(d, pool) == IF d.result # "" THEN d ELSE [d EXCEPT !.image[pool] = Append(@, d.list)]

RECURSIVE readArrays(_, _, _, _)
\* deserialize, the loop over the arrays of a pool.
readArrays(d, i, count, pool) ==
    IF d.result # "" \/ ~below(i, count) THEN d
    ELSE readArrays(pooled(readArray(d, pool), pool), i + 1, count, pool)

\* deserialize, one of the three array pools.
readPool(d, pool) ==
    IF d.result # "" THEN d
    ELSE IF ends(d, 4) THEN refused(d)
    ELSE readArrays(resized(consumed(d, 4), readUint32(d)), 0, readUint32(d), pool)

\* deserialize, a function-table entry after its name: address, arity, locals.
readEntry(d, name) ==
    IF d.result # "" THEN d
    ELSE IF ends(d, 4) THEN refused(d)
    ELSE IF ends(consumed(d, 4), 1) THEN refused(consumed(d, 4))
    ELSE IF ends(consumed(d, 5), 1) THEN refused(consumed(d, 5))
    ELSE [consumed(d, 6) EXCEPT
             !.image.functions =
                 Append(@, FunctionInfo(name, u32(readUint32(d)), byteAt(d, 4), byteAt(d, 5)))]

\* deserialize, one function-table entry: the name, then the rest.
readFunction(d) ==
    IF readString(listing(d)).result # "" THEN readString(listing(d))
    ELSE readEntry(readString(listing(d)), readString(listing(d)).list[1])

RECURSIVE readFunctions(_, _, _)
\* deserialize, the loop over the function table.
readFunctions(d, i, funcCount) ==
    IF d.result # "" \/ ~below(i, funcCount) THEN d
    ELSE readFunctions(readFunction(d), i + 1, funcCount)

\* deserialize, the functions section.
readFunctionsSection(d) ==
    IF d.result # "" THEN d
    ELSE IF ends(d, 4) THEN refused(d)
    ELSE readFunctions(resized(consumed(d, 4), readUint32(d)), 0, readUint32(d))

\* deserialize, the native imports.
readNativesSection(d) ==
    IF d.result # "" THEN d
    ELSE [readStrings(d) EXCEPT !.image.nativeImports = readStrings(d).list]

\* deserialize, the end: bytes left over are a warning, the call returns true.
readEnd(d) == IF d.result # "" THEN d ELSE [d EXCEPT !.result = "true", !.list = <<>>]

\* BytecodeFile::deserialize into a fresh image.
deserialize(data, beyond, heap) ==
    readEnd(
      readNativesSection(
        readFunctionsSection(
          readPool(
            readPool(
              readPool(
                readStringsSection(
                  readConstantsSection(
                    readCodeSection(
                      readHeader(Reader(data, beyond, heap))))),
                "intArrays"),
              "floatArrays"),
            "stringArrays"))))

\* ------------------------------------------------------------------------
\* The pipeline: a program is compiled, the image is executed
\* ------------------------------------------------------------------------

VARIABLES
    phase,       \* "tokens", "files", "source", "rejected", "image", "exec", "exited",
                 \* "file", "loaded"
    tokens,      \* the tokens of the source file handed to the parser
    files,       \* tailc: filesData, one record per source file
    ast,         \* the statements handed to Compiler::compile
    compileErr,  \* the error tailc stopped with before an image existed, "" if none
    slotLog,     \* history: every FunctionContext::addLocal of the compilation
    program,     \* VM::program
    running,     \* VM::running
    pc,          \* VM::pc
    stack,       \* VM::stack
    globals,     \* VM::globals
    locals,      \* VM::locals
    callStack,   \* VM::callStack
    vmErr,       \* the message of the exception the VM threw, "" if none
    out,         \* what the program wrote to standard output
    steps,       \* history: the number of instructions dispatched
    callBase,    \* history: per frame, the stack depth below the arguments at CALL
    last,        \* history: pc and instruction of the latest dispatch
    wire,        \* the bytes of the image file, <<>> while there is none
    load,        \* what BytecodeFile::deserialize made of the image file
    compiler,    \* a Compiler that literals are inserted into
    literal,     \* history: the literal inserted last
    lexer,       \* a Lexer inside tokenize
    parser,      \* a Parser inside parse
    includes     \* tailc: main while it collects the files to compile

vars == <<phase, tokens, files, ast, compileErr, slotLog, program, running, pc, stack,
          globals, locals, callStack, vmErr, out, steps, callBase, last, wire, load,
          compiler, literal, lexer, parser, includes>>

fileVars == <<wire, load>>

poolVars == <<compiler, literal>>

frontVars == <<lexer, parser, includes>>

vmVars == <<running, pc, stack, globals, locals, callStack, vmErr, out, steps, callBase, last>>

NoLast == [pc |-> 0, op |-> "", operand |-> 0]

\* No image file was written, none was loaded.
NoFile == wire = <<>> /\ load = [result |-> ""]

NoLiteral == [t |-> "", v |-> 0]

\* tailc before main looked at its arguments.
NoIncludes == [allFiles |-> <<>>]

\* No Lexer and no Parser is at work, and no include is being resolved.
NoFront == lexer = [source |-> <<>>] /\ parser = [tokens |-> <<>>] /\ includes = NoIncludes

\* The VM object of the model, as the record the operators work on.
machine ==
    [program |-> program, running |-> running, pc |-> pc, stack |-> stack,
     globals |-> globals, locals |-> locals, callStack |-> callStack, err |-> vmErr,
     out |-> out]

VmInit ==
    /\ running = FALSE /\ pc = 0 /\ stack = <<>> /\ globals = <<>> /\ locals = <<>>
    /\ callStack = <<>> /\ vmErr = "" /\ out = <<>> /\ steps = 0 /\ callBase = <<>>
    /\ last = NoLast

Init ==
    /\ compileErr = "" /\ slotLog = <<>>
    /\ VmInit /\ NoFile
    /\ compiler = Compiler /\ literal = NoLiteral /\ NoFront
    /\ tokens = <<>> /\ files = <<>>
    /\ \/ phase = "source" /\ ast \in Programs /\ program = BytecodeFile
       \/ phase = "image" /\ ast = <<>> /\ program \in RawImages

\* What tailc keeps of a compilation: the image when compile returned, the
\* message when it threw.
Compiled(cs) ==
    /\ compileErr' = cs.err
    /\ slotLog' = cs.slotLog
    /\ phase' = IF cs.err = "" THEN "image" ELSE "rejected"
    /\ program' = IF cs.err = "" THEN cs.bytecode ELSE program

\* tailc: Compiler::compile on the program; the image exists only when no
\* exception was thrown.
Compile ==
    /\ phase = "source"
    /\ Compiled(compile(Compiler, ast))
    /\ UNCHANGED <<tokens, files, ast, vmVars, fileVars, poolVars, frontVars>>

\* The fields of the VM after an operation that left the machine m; callBase
\* follows the call stack: a new frame records the stack depth below its
\* arguments, a popped frame drops its record.
Loaded(m) ==
    /\ running' = m.running /\ pc' = m.pc /\ stack' = m.stack
    /\ globals' = m.globals /\ locals' = m.locals /\ callStack' = m.callStack
    /\ vmErr' = m.err /\ out' = m.out
    /\ callBase' =
         IF Len(m.callStack) > Len(callStack)
         THEN Append(callBase, Len(stack) - m.callStack[Len(m.callStack)].argCount)
         ELSE IF Len(m.callStack) < Len(callStack)
         THEN SubSeq(callBase, 1, Len(callBase) - 1)
         ELSE callBase

\* VM::execute up to its dispatch loop.
ExecuteStart ==
    /\ phase = "image"
    /\ Loaded(executeStart(program))
    /\ phase' = "exec"
    /\ UNCHANGED <<tokens, files, ast, compileErr, slotLog, program, steps, last, fileVars, poolVars, frontVars>>

\* One iteration of the dispatch loop.
ExecuteLoop ==
    /\ phase = "exec" /\ vmErr = "" /\ running /\ pc < Len(program.code)
    /\ steps < MaxSteps
    /\ \E host \in HostResults : Loaded(dispatch(machine, host))
    /\ last' = [pc |-> pc, op |-> program.code[pc + 1].op,
                operand |-> program.code[pc + 1].operand]
    /\ steps' = steps + 1
    /\ UNCHANGED <<phase, tokens, files, ast, compileErr, slotLog, program, fileVars, poolVars, frontVars>>

\* The loop ends: HALT or the bootstrap return cleared running, pc ran past the
\* code, or an exception was thrown.
ExecuteReturn ==
    /\ phase = "exec"
    /\ (vmErr # "" \/ ~running \/ pc >= Len(program.code))
    /\ phase' = "exited"
    /\ UNCHANGED <<tokens, files, ast, compileErr, slotLog, program, vmVars, fileVars, poolVars, frontVars>>

Next == Compile \/ ExecuteStart \/ ExecuteLoop \/ ExecuteReturn

Spec == Init /\ [][Next]_vars

\* ------------------------------------------------------------------------
\* Properties of the pipeline
\* ------------------------------------------------------------------------

\* The image in program came out of Compiler::compile.
compiledImage == phase \in {"image", "exec", "exited"} /\ ast # <<>>

\* The step is an iteration of the dispatch loop that threw nothing.
dispatched == steps' = steps + 1 /\ vmErr' = ""

\* The instruction the dispatch loop is about to execute.
current == program.code[pc + 1]

\* The current instruction is a conditional jump whose condition, on top of
\* the stack, does not make it jump.
jumpNotTaken ==
    /\ stack # <<>>
    /\ \/ current.op = "JMP_IF" /\ ~isTruthy(stack[Len(stack)])
       \/ current.op = "JMP_IFNOT" /\ isTruthy(stack[Len(stack)])

\* C1: an instruction that is no jump, CALL or RET advances pc by one, and so
\* does a conditional jump that is not taken, which pops its condition.
PcAdvance ==
    [][dispatched =>
         /\ current.op \notin noAdvance => pc' = pc + 1
         /\ jumpNotTaken => pc' = pc + 1 /\ stack' = SubSeq(stack, 1, Len(stack) - 1)]_vars

\* The function-table entry CALL addr resolves to.
calledFunction(addr) ==
    program.functions[CHOOSE i \in 1..Len(program.functions) :
                          /\ program.functions[i].address = addr
                          /\ \A j \in 1..(i - 1) : program.functions[j].address # addr]

calleeExists(addr) == \E i \in 1..Len(program.functions) : program.functions[i].address = addr

\* C2: a CALL with fewer stack items than the callee's arity is a runtime
\* error, and a RET that returns to a caller leaves the stack one item (the
\* value returned) above its depth before the arguments of the call were pushed.
ArityDiscipline ==
    [][steps' = steps + 1 =>
         /\ (current.op = "CALL" /\ calleeExists(current.operand)
                /\ Len(stack) < calledFunction(current.operand).arity) => vmErr' # ""
         /\ (current.op = "RET" /\ Len(callStack) > 1 /\ vmErr' = "") =>
                /\ Len(stack') = callBase[Len(callBase)] + 1
                /\ stack # <<>> => stack'[Len(stack')] = stack[Len(stack)]]_vars

\* The top call frame.
topFrame == callStack[Len(callStack)]

\* C3: LOAD k and STORE k work on slot local_start + k of the top frame: LOAD
\* pushes that slot, STORE writes the top of the stack to that slot and to no other.
LocalsPartitioned ==
    [][(dispatched /\ callStack # <<>> /\ current.op \in {"LOAD", "STORE"}
           /\ topFrame.localStart + current.operand < Len(locals)) =>
         /\ current.op = "LOAD" =>
                stack'[Len(stack')] = locals[topFrame.localStart + current.operand + 1]
         /\ current.op = "STORE" =>
                locals' = [locals EXCEPT ![topFrame.localStart + current.operand + 1] =
                                              stack[Len(stack)]]]_vars

\* C4: in a compiled image every jump operand is an address in [0, code.len]
\* and none is the placeholder.
JumpsPatched ==
    compiledImage =>
        \A i \in 1..Len(program.code) :
            program.code[i].op \in {"JMP", "JMP_IF", "JMP_IFNOT"} =>
                /\ program.code[i].operand \in 0..Len(program.code)
                /\ program.code[i].operand # UINT32_MAX

\* C5: the parameters and variables of one function have pairwise distinct slots.
SlotsDistinct ==
    compiledImage =>
        \A i, j \in 1..Len(slotLog) :
            (i # j /\ slotLog[i].fn = slotLog[j].fn) => slotLog[i].slot # slotLog[j].slot

\* What print(l op r) has to write: the text of the operand the operator yields,
\* after the "G" of g() when the right operand is the call and is evaluated.
operandText(e) ==
    IF e.k = "Call" THEN <<"G", "1">>
    ELSE <<toString(IF e.t = "bool" THEN BoolVal(e.i = 1)
                    ELSE IF e.t = "nil" THEN NilVal ELSE IntVal(e.i), <<>>)>>

operandTruthy(e) == e.k = "Literal" /\ isTruthy(Val(e.t, e.i))

logicalText(e) ==
    IF e.op = "&&"
    THEN (IF operandTruthy(e.left) THEN operandText(e.right) ELSE operandText(e.left))
    ELSE (IF operandTruthy(e.left) THEN operandText(e.left) ELSE operandText(e.right))

\* The logical expression of a program print(l op r).
probed == ast[2].body[1].expression.args[1]

\* C6: a program print(x && y) or print(x || y) runs without error and writes
\* the operand the operator yields; y is evaluated only when x does not decide.
ShortCircuit ==
    (phase = "exited" /\ ast \in LogicalPrograms) =>
        vmErr = "" /\ out = logicalText(probed)

\* C8: in a compiled image every CALL operand is the address of a
\* function-table entry.
CallCorrespondence ==
    compiledImage =>
        \A i \in 1..Len(program.code) :
            program.code[i].op = "CALL" => calleeExists(program.code[i].operand)

\* A compiled image that holds a CALL.
CallCorrespondenceWitness ==
    /\ compiledImage /\ phase = "image"
    /\ \E i \in 1..Len(program.code) : program.code[i].op = "CALL"

\* The compiler has run on the program of this behaviour.
compileDone == phase # "source" /\ (ast # <<>> \/ phase = "rejected")

\* VM::execute has got past its lookup of Main.
executeBegun == phase \in {"exec", "exited"}

\* VM::execute on an image without a Main entry throws before the first
\* instruction; with one it does not throw that error.
MainEntryRequired ==
    executeBegun =>
        IF hasMainEntry(program.functions) THEN vmErr # "Main function not found"
        ELSE vmErr = "Main function not found" /\ steps = 0

\* C9 as stated: without a Main the compiler fails with 'Main function not
\* found' and there is no image, with one it does not raise that error; the
\* same for VM::execute and the function table.
MainRequiredAsStated ==
    /\ compileDone =>
          IF hasMainFunction(ast) THEN compileErr # "Main function not found"
          ELSE phase = "rejected" /\ compileErr = "Main function not found"
    /\ MainEntryRequired

\* C9: without a Main the compiler fails and there is no image; the error is
\* 'Main function not found' unless a function other than Main failed to
\* compile, whose error is then the one raised.  With a Main that error is
\* not raised.  VM::execute fails before any instruction exactly when the
\* function table has no Main.
MainRequired ==
    /\ compileDone =>
          IF hasMainFunction(ast) THEN compileErr # "Main function not found"
          ELSE /\ phase = "rejected"
               /\ compileErr = IF compileNonMain(Compiler, ast).err # ""
                               THEN compileNonMain(Compiler, ast).err
                               ELSE "Main function not found"
    /\ MainEntryRequired

\* The compiler has rejected a program that has functions and no Main.
MainRequiredWitness ==
    /\ phase = "rejected" /\ ast # <<>> /\ ~hasMainFunction(ast)
    /\ compileErr = "Main function not found"

\* ------------------------------------------------------------------------
\* The parser (shared/parser.cpp).  The operations are operators over a
\* parser record ps holding tokens, pos and errors of Tail::Parser; thrown is
\* the message of the runtime_error on its way to a catch, "" when there is none.
\* A parse function yields the parser it leaves and the node it returns.
\* ------------------------------------------------------------------------

\* Tail::Token; the text of a NUMBER or FLOAT token is its sequence of characters.
Token(type, text) == [type |-> type, text |-> text]

\* Parser::Parser; recoveries is history: pos before and after every synchronize.
Parser(t) ==
    [tokens |-> t, pos |-> 0, errors |-> <<>>, includedFiles |-> {}, thrown |-> "",
     recoveries |-> <<>>]

isAtEnd(ps) == ps.pos >= Len(ps.tokens) \/ ps.tokens[ps.pos + 1].type = "EOF_TOKEN"

peek(ps) == IF isAtEnd(ps) THEN ps.tokens[Len(ps.tokens)] ELSE ps.tokens[ps.pos + 1]

advance(ps) == IF isAtEnd(ps) THEN ps ELSE [ps EXCEPT !.pos = @ + 1]

check(ps, type) == ~isAtEnd(ps) /\ ps.tokens[ps.pos + 1].type = type

\* match(a) || match(b) || ...: whether one of the types is next (it is then consumed).
checkOneOf(ps, types) == ~isAtEnd(ps) /\ ps.tokens[ps.pos + 1].type \in types

\* Parser::match, the parser it leaves.
match(ps, type) == IF check(ps, type) THEN advance(ps) ELSE ps

\* Parser::error: the entry keeps the token whose line and column the message names.
error(ps, token, message) ==
    [ps EXCEPT !.errors = Append(@, [token |-> token, message |-> message])]

\* Parser::consume
consume(ps, type, message) ==
    IF check(ps, type) THEN advance(ps)
    ELSE [error(ps, peek(ps), message) EXCEPT !.thrown = message]

\* A parse result.
R(ps, node) == [ps |-> ps, node |-> node]

\* The statements after a call that may throw (see Then).
Parsed(r, F(_)) == IF r.ps.thrown # "" THEN r ELSE F(r)

DigitValue(c) == CHOOSE d \in 0..9 : Digit[d + 1] = c

\* The decimal digits of INT64_MAX.
Int64MaxDigits ==
    <<"9", "2", "2", "3", "3", "7", "2", "0", "3", "6", "8", "5", "4", "7", "7", "5", "8",
      "0", "7">>

RECURSIVE significant(_)
\* The digits without the leading zeros.
significant(text) ==
    IF text # <<>> /\ Head(text) = "0" THEN significant(Tail(text)) ELSE text

\* The digits are those of a number above digits' (of the same length).
above(text, digits) ==
    \E i \in 1..Len(text) :
        /\ DigitValue(text[i]) > DigitValue(digits[i])
        /\ \A j \in 1..(i - 1) : text[j] = digits[j]

\* std::stoll throws std::out_of_range: the number is no int64_t.
outOfRange(text) ==
    \/ Len(significant(text)) > Len(Int64MaxDigits)
    \/ Len(significant(text)) = Len(Int64MaxDigits) /\ above(significant(text), Int64MaxDigits)

\* what() of the exceptions that are no std::runtime_error (std::out_of_range
\* is a std::logic_error).
LogicErrors == {"stoll"}

RECURSIVE stoll(_)
\* std::stoll on the characters of a NUMBER token (decimal digits).
stoll(text) ==
    IF text = <<>> THEN 0
    ELSE 10 * stoll(SubSeq(text, 1, Len(text) - 1)) + DigitValue(text[Len(text)])

\* std::stod on the characters of a FLOAT token; the floats of the model are
\* whole numbers, the value is that of the digits before the point.
stod(text) ==
    stoll(SubSeq(text, 1, (CHOOSE i \in 1..Len(text) : text[i] = "."
                                     /\ \A j \in 1..(i - 1) : text[j] # ".") - 1))

RECURSIVE parseExpression(_)
RECURSIVE parseAssignment(_)
RECURSIVE parseUnary(_)
RECURSIVE parseArguments(_, _)
RECURSIVE parseCallRest(_)
RECURSIVE parseFactorRest(_)
RECURSIVE parseTermRest(_)
RECURSIVE parseComparisonRest(_)
RECURSIVE parseEqualityRest(_)
RECURSIVE parseLogicalAndRest(_)
RECURSIVE parseLogicalOrRest(_)

\* Parser::parsePrimary: no expression is an error entry and a null node, no exception.
parsePrimary(ps) ==
    CASE check(ps, "NUMBER") ->
             IF outOfRange(peek(ps).text) THEN R([advance(ps) EXCEPT !.thrown = "stoll"], NoNode)
             ELSE R(advance(ps), LitInt(stoll(peek(ps).text)))
      [] check(ps, "FLOAT") -> R(advance(ps), Lit("float", stod(peek(ps).text), ""))
      [] check(ps, "STRING") -> R(advance(ps), LitStr(peek(ps).text))
      [] check(ps, "TRUE") -> R(advance(ps), LitBool(TRUE))
      [] check(ps, "FALSE") -> R(advance(ps), LitBool(FALSE))
      [] check(ps, "NIL") -> R(advance(ps), LitNil)
      [] check(ps, "IDENTIFIER") -> R(advance(ps), Variable(peek(ps).text))
      [] check(ps, "LEFT_PAREN") ->
             Parsed(parseExpression(advance(ps)), LAMBDA r :
                 R(consume(r.ps, "RIGHT_PAREN", "Expected ')' after expression"), r.node))
      [] OTHER -> R(error(ps, peek(ps), "Expected expression"), NoNode)

\* finishCall: do { args.push_back(parseExpression()); } while (match(COMMA));
parseArguments(ps, args) ==
    Parsed(parseExpression(ps), LAMBDA r :
        IF check(r.ps, "COMMA") THEN parseArguments(advance(r.ps), Append(args, r.node))
        ELSE R(r.ps, Append(args, r.node)))

realNatives == {"Console", "Math", "String", "Array", "File", "System"}

\* finishCall: the CallExpr built for the callee.
callNode(callee, args) ==
    IF callee.k = "Get"
    THEN IF callee.object.k = "Variable"
         THEN Call(callee.object.name, callee.name, args, callee.object.name \in realNatives)
         ELSE Call("", callee.name, args, TRUE)
    ELSE IF callee.k = "Variable" THEN Call("", callee.name, args, FALSE)
    ELSE Call("", "", args, FALSE)

\* Parser::finishCall
finishCall(ps, callee) ==
    Parsed(IF check(ps, "RIGHT_PAREN") THEN R(ps, <<>>) ELSE parseArguments(ps, <<>>),
           LAMBDA a : R(consume(a.ps, "RIGHT_PAREN", "Expected ')' after arguments"),
                        callNode(callee, a.node)))

\* Parser::parseCall, the loop.
parseCallRest(r) ==
    IF r.ps.thrown # "" THEN r
    ELSE IF check(r.ps, "LEFT_PAREN") THEN parseCallRest(finishCall(advance(r.ps), r.node))
    ELSE IF check(r.ps, "DOT")
    THEN parseCallRest(R(consume(advance(r.ps), "IDENTIFIER",
                                 "Expected property name after '.'"),
                         Get(r.node, peek(advance(r.ps)).text)))
    ELSE r

\* Parser::parseCall
parseCall(ps) == parseCallRest(parsePrimary(ps))

\* Parser::parseUnary: ! and - both become a LogicalExpr without a left operand.
parseUnary(ps) ==
    IF checkOneOf(ps, {"BANG", "MINUS"})
    THEN Parsed(parseUnary(advance(ps)), LAMBDA r :
                R(r.ps, Logical(NoNode, peek(ps).text, r.node)))
    ELSE parseCall(ps)

\* Parser::parseFactor, the loop.
parseFactorRest(r) ==
    IF r.ps.thrown # "" \/ ~checkOneOf(r.ps, {"STAR", "SLASH", "MOD"}) THEN r
    ELSE Parsed(parseUnary(advance(r.ps)), LAMBDA right :
                parseFactorRest(R(right.ps, Binary(r.node, peek(r.ps).text, right.node))))

\* Parser::parseFactor
parseFactor(ps) == parseFactorRest(parseUnary(ps))

\* Parser::parseTerm, the loop.
parseTermRest(r) ==
    IF r.ps.thrown # "" \/ ~checkOneOf(r.ps, {"PLUS", "MINUS"}) THEN r
    ELSE Parsed(parseFactor(advance(r.ps)), LAMBDA right :
                parseTermRest(R(right.ps, Binary(r.node, peek(r.ps).text, right.node))))

\* Parser::parseTerm
parseTerm(ps) == parseTermRest(parseFactor(ps))

\* Parser::parseComparison, the loop.
parseComparisonRest(r) ==
    IF r.ps.thrown # ""
       \/ ~checkOneOf(r.ps, {"GREATER", "GREATER_EQUAL", "LESS", "LESS_EQUAL"}) THEN r
    ELSE Parsed(parseTerm(advance(r.ps)), LAMBDA right :
                parseComparisonRest(R(right.ps,
                                      Compare(r.node, peek(r.ps).text, right.node))))

\* Parser::parseComparison
parseComparison(ps) == parseComparisonRest(parseTerm(ps))

\* Parser::parseEquality, the loop.
parseEqualityRest(r) ==
    IF r.ps.thrown # "" \/ ~checkOneOf(r.ps, {"BANG_EQUAL", "EQUAL_EQUAL"}) THEN r
    ELSE Parsed(parseComparison(advance(r.ps)), LAMBDA right :
                parseEqualityRest(R(right.ps, Compare(r.node, peek(r.ps).text, right.node))))

\* Parser::parseEquality
parseEquality(ps) == parseEqualityRest(parseComparison(ps))

\* Parser::parseLogicalAnd, the loop.
parseLogicalAndRest(r) ==
    IF r.ps.thrown # "" \/ ~check(r.ps, "AND") THEN r
    ELSE Parsed(parseEquality(advance(r.ps)), LAMBDA right :
                parseLogicalAndRest(R(right.ps, Logical(r.node, "&&", right.node))))

\* Parser::parseLogicalAnd
parseLogicalAnd(ps) == parseLogicalAndRest(parseEquality(ps))

\* Parser::parseLogicalOr, the loop.
parseLogicalOrRest(r) ==
    IF r.ps.thrown # "" \/ ~check(r.ps, "OR") THEN r
    ELSE Parsed(parseLogicalAnd(advance(r.ps)), LAMBDA right :
                parseLogicalOrRest(R(right.ps, Logical(r.node, "||", right.node))))

\* Parser::parseLogicalOr
parseLogicalOr(ps) == parseLogicalOrRest(parseLogicalAnd(ps))

\* Parser::parseAssignment: target = value becomes BinaryExpr(target, "=", value).
parseAssignment(ps) ==
    Parsed(parseLogicalOr(ps), LAMBDA e :
        IF check(e.ps, "EQUAL")
        THEN Parsed(parseAssignment(advance(e.ps)), LAMBDA value :
                 IF e.node.k = "Variable"
                 THEN R(value.ps, Binary(e.node, "=", value.node))
                 ELSE R(error(value.ps, peek(value.ps), "Invalid assignment target"),
                        e.node))
        ELSE e)

\* Parser::parseExpression
parseExpression(ps) == parseAssignment(ps)

RECURSIVE parseDeclaration(_)
RECURSIVE parseStatement(_)
RECURSIVE parseIfStatement(_)
RECURSIVE parseBlockRest(_, _)
RECURSIVE parseParameters(_, _)
RECURSIVE synchronizeLoop(_)
RECURSIVE parseLoop(_, _)

\* Parser::isTypeToken
isTypeToken(type) == type \in {"INT", "FLOAT_TYPE", "STR", "BOOL", "BYTE"}

\* Parser::synchronize, the loop: up to the token after a semicolon or to a
\* token that starts a declaration or statement.
synchronizeLoop(ps) ==
    IF isAtEnd(ps) THEN ps
    ELSE IF ps.tokens[ps.pos].type = "SEMICOLON" THEN ps
    ELSE IF peek(ps).type \in {"FN", "IF", "FOR", "WHILE", "RETURN", "INCLUDE"} THEN ps
    ELSE synchronizeLoop(advance(ps))

\* Parser::synchronize
synchronize(ps) == synchronizeLoop(advance(ps))

\* An optional unmut or mut, consumed.
skipMutability(ps) == IF checkOneOf(ps, {"UNMUT", "MUT"}) THEN advance(ps) ELSE ps

\* Parser::parseVarDeclaration
parseVarDeclaration(ps) ==
    LET typeToken == peek(skipMutability(ps))
        afterType == advance(skipMutability(ps))
    IN IF ~isTypeToken(typeToken.type)
       THEN R(error(afterType, typeToken, "Expected type name"), NoNode)
       ELSE Parsed(R(consume(afterType, "IDENTIFIER", "Expected variable name"), NoNode),
                   LAMBDA n :
            Parsed(IF check(n.ps, "EQUAL") THEN parseExpression(advance(n.ps))
                   ELSE R(n.ps, NoNode),
                   LAMBDA init :
                R(consume(init.ps, "SEMICOLON", "Expected ';' after variable declaration"),
                  VarDeclStmt(~check(ps, "UNMUT"), typeToken.text, peek(afterType).text,
                              init.node))))

\* Parser::parseArrayDeclaration: the token it is entered on is taken as the type.
parseArrayDeclaration(ps) ==
    Parsed(R(consume(advance(ps), "IDENTIFIER", "Expected array name"), NoNode), LAMBDA n :
    Parsed(R(consume(n.ps, "LEFT_BRACKET", "Expected '[' after array name"), NoNode),
           LAMBDA b :
    Parsed(IF ~check(b.ps, "RIGHT_BRACKET") THEN parseExpression(b.ps) ELSE R(b.ps, NoNode),
           LAMBDA size :
    Parsed(R(consume(size.ps, "RIGHT_BRACKET", "Expected ']' after array size"), NoNode),
           LAMBDA c :
    Parsed(IF check(c.ps, "EQUAL") THEN parseExpression(advance(c.ps)) ELSE R(c.ps, NoNode),
           LAMBDA init :
        R(consume(init.ps, "SEMICOLON", "Expected ';' after array declaration"),
          ArrayDecl(peek(ps).text, peek(advance(ps)).text, size.node, init.node)))))))

\* Parser::parseBlock, the loop and the closing brace.
parseBlockRest(ps, statements) ==
    IF ~check(ps, "RIGHT_BRACE") /\ ~isAtEnd(ps)
    THEN Parsed(parseDeclaration(ps), LAMBDA d :
                parseBlockRest(d.ps, IF d.node # NoNode THEN Append(statements, d.node)
                                     ELSE statements))
    ELSE R(consume(ps, "RIGHT_BRACE", "Expected '}' after block"), Block(statements))

\* Parser::parseBlock: entered after the opening brace.
parseBlock(ps) == parseBlockRest(ps, <<>>)

\* Parser::parseIfStatement: the then branch is parseBlock on the token after
\* the closing parenthesis.
parseIfStatement(ps) ==
    Parsed(R(consume(ps, "LEFT_PAREN", "Expected '(' after 'if'"), NoNode), LAMBDA a :
    Parsed(parseExpression(a.ps), LAMBDA cond :
    Parsed(R(consume(cond.ps, "RIGHT_PAREN", "Expected ')' after condition"), NoNode),
           LAMBDA b :
    Parsed(parseBlock(b.ps), LAMBDA th :
        IF check(th.ps, "ELSE")
        THEN Parsed(IF check(advance(th.ps), "IF")
                    THEN parseIfStatement(advance(advance(th.ps)))
                    ELSE parseBlock(advance(th.ps)),
                    LAMBDA el : R(el.ps, If(cond.node, th.node, el.node)))
        ELSE R(th.ps, If(cond.node, th.node, NoNode))))))

\* Parser::parseWhileStatement
parseWhileStatement(ps) ==
    Parsed(R(consume(ps, "LEFT_PAREN", "Expected '(' after 'while'"), NoNode), LAMBDA a :
    Parsed(parseExpression(a.ps), LAMBDA cond :
    Parsed(R(consume(cond.ps, "RIGHT_PAREN", "Expected ')' after condition"), NoNode),
           LAMBDA b :
    Parsed(parseStatement(b.ps), LAMBDA body : R(body.ps, While(cond.node, body.node))))))

\* parseForStatement, the initializer clause.
forInitializer(ps) ==
    IF check(ps, "SEMICOLON") THEN R(advance(ps), NoNode)
    ELSE IF isTypeToken(peek(skipMutability(ps)).type) THEN parseVarDeclaration(ps)
    ELSE Parsed(parseExpression(ps), LAMBDA e :
                R(consume(e.ps, "SEMICOLON", "Expected ';' after for initializer"),
                  ExprStmt(e.node)))

\* Parser::parseForStatement
parseForStatement(ps) ==
    Parsed(R(consume(ps, "LEFT_PAREN", "Expected '(' after 'for'"), NoNode), LAMBDA a :
    Parsed(forInitializer(a.ps), LAMBDA init :
    Parsed(IF ~check(init.ps, "SEMICOLON") THEN parseExpression(init.ps)
           ELSE R(init.ps, NoNode),
           LAMBDA cond :
    Parsed(R(consume(cond.ps, "SEMICOLON", "Expected ';' after for condition"), NoNode),
           LAMBDA b :
    Parsed(IF ~check(b.ps, "RIGHT_PAREN") THEN parseExpression(b.ps) ELSE R(b.ps, NoNode),
           LAMBDA inc :
    Parsed(R(consume(inc.ps, "RIGHT_PAREN", "Expected ')' after for clauses"), NoNode),
           LAMBDA c :
    Parsed(parseStatement(c.ps), LAMBDA body :
        R(body.ps, For(init.node, cond.node, inc.node, body.node)))))))))

\* Parser::parseReturnStatement
parseReturnStatement(ps) ==
    Parsed(IF ~check(ps, "SEMICOLON") THEN parseExpression(ps) ELSE R(ps, NoNode),
           LAMBDA value :
        R(consume(value.ps, "SEMICOLON", "Expected ';' after return"), Return(value.node)))

\* Parser::parseBreakStatement
parseBreakStatement(ps) == R(consume(ps, "SEMICOLON", "Expected ';' after break"), Break)

\* Parser::parseContinueStatement
parseContinueStatement(ps) ==
    R(consume(ps, "SEMICOLON", "Expected ';' after continue"), Continue)

\* parseStatement, the last case: an expression and its semicolon.
parseExpressionStatement(ps) ==
    Parsed(parseExpression(ps), LAMBDA e :
        R(consume(e.ps, "SEMICOLON", "Expected ';' after expression"), ExprStmt(e.node)))

\* Parser::parseStatement
parseStatement(ps) ==
    CASE check(ps, "IF") -> parseIfStatement(advance(ps))
      [] check(ps, "WHILE") -> parseWhileStatement(advance(ps))
      [] check(ps, "FOR") -> parseForStatement(advance(ps))
      [] check(ps, "RETURN") -> parseReturnStatement(advance(ps))
      [] check(ps, "BREAK") -> parseBreakStatement(advance(ps))
      [] check(ps, "CONTINUE") -> parseContinueStatement(advance(ps))
      [] check(ps, "LEFT_BRACE") -> parseBlock(advance(ps))
      [] OTHER ->
           IF isTypeToken(peek(skipMutability(ps)).type) THEN parseVarDeclaration(ps)
           ELSE IF /\ check(skipMutability(ps), "IDENTIFIER")
                   /\ skipMutability(ps).pos + 1 < Len(ps.tokens)
                   /\ ps.tokens[skipMutability(ps).pos + 2].type = "LEFT_BRACKET"
           THEN parseArrayDeclaration(skipMutability(ps))
           ELSE parseExpressionStatement(skipMutability(ps))

\* parseFunction, the parameter loop; the model keeps the names of the parameters.
parseParameters(ps, parameters) ==
    IF ~isTypeToken(peek(ps).type)
    THEN R([error(ps, peek(ps), "Expected parameter type (int, float, str, bool, byte)")
               EXCEPT !.thrown = "Expected parameter type"],
           parameters)
    ELSE Parsed(R(consume(advance(ps), "IDENTIFIER", "Expected parameter name"), NoNode),
                LAMBDA n :
             IF check(n.ps, "COMMA")
             THEN parseParameters(advance(n.ps), Append(parameters, peek(advance(ps)).text))
             ELSE R(n.ps, Append(parameters, peek(advance(ps)).text)))

\* Parser::parseFunction: entered after fn.
parseFunction(ps) ==
    Parsed(R(consume(ps, "IDENTIFIER", "Expected function name"), NoNode), LAMBDA n :
    Parsed(R(consume(n.ps, "LEFT_PAREN", "Expected '(' after function name"), NoNode),
           LAMBDA a :
    Parsed(IF ~check(a.ps, "RIGHT_PAREN") THEN parseParameters(a.ps, <<>>)
           ELSE R(a.ps, <<>>),
           LAMBDA params :
    Parsed(R(consume(params.ps, "RIGHT_PAREN", "Expected ')' after parameters"), NoNode),
           LAMBDA b :
    Parsed(R(consume(b.ps, "LEFT_BRACE", "Expected '{' before function body"), NoNode),
           LAMBDA c :
    Parsed(parseBlock(c.ps), LAMBDA body :
        R(body.ps, Function(peek(ps).text, params.node, body.node.statements))))))))

\* Parser::parseInclude: entered after include; the name is recorded, no node.
parseInclude(ps) ==
    Parsed(R(consume(ps, "IDENTIFIER", "Expected library name after 'include'"), NoNode),
           LAMBDA n :
    Parsed(R(consume(n.ps, "SEMICOLON", "Expected ';' after include"), NoNode), LAMBDA e :
        R([e.ps EXCEPT !.includedFiles = @ \cup {peek(ps).text}], NoNode)))

NoToken == Token("", "")

\* synchronize() in the catch, with its entry in the history.
recovered(ps) ==
    [synchronize(ps) EXCEPT
        !.recoveries = Append(@, [from |-> ps.pos, to |-> synchronize(ps).pos])]

\* catch (const std::runtime_error &e): the message is recorded, the parser
\* synchronizes, the declaration is null.  An exception of another class
\* passes.
caught(r) ==
    IF r.ps.thrown = "" \/ r.ps.thrown \in LogicErrors THEN r
    ELSE R(recovered([r.ps EXCEPT
                         !.errors = Append(@, [token |-> NoToken, message |-> r.ps.thrown]),
                         !.thrown = ""]),
           NoNode)

\* Parser::parseDeclaration
parseDeclaration(ps) ==
    caught(IF check(ps, "INCLUDE") THEN parseInclude(advance(ps))
           ELSE IF check(ps, "FN") THEN parseFunction(advance(ps))
           ELSE parseStatement(ps))

\* Parser::parse, the loop.
parseLoop(ps, statements) ==
    IF isAtEnd(ps) THEN R(ps, statements)
    ELSE Parsed(parseDeclaration(ps), LAMBDA d :
                parseLoop(d.ps, IF d.node # NoNode THEN Append(statements, d.node)
                                ELSE statements))

\* Parser::parse: the statements, and the parser with its errors.
parse(ps) == parseLoop(ps, <<>>)

\* ------------------------------------------------------------------------
\* The driver (tailc.cpp)
\* ------------------------------------------------------------------------

\* FileData: one parsed source file.
FileData(moduleName, isMainFile, fileAst) ==
    [moduleName |-> moduleName, isMainFile |-> isMainFile, ast |-> fileAst]

RECURSIVE functionsByModule(_, _)
\* functionsByModule[moduleName]: the FunctionStmts of the files of that stem,
\* in the order the files were parsed.
functionsByModule(fs, moduleName) ==
    IF fs = <<>> THEN <<>>
    ELSE (IF Head(fs).moduleName = moduleName
          THEN SelectSeq(Head(fs).ast, LAMBDA stmt : stmt.k = "Function")
          ELSE <<>>) \o functionsByModule(Tail(fs), moduleName)

RECURSIVE compileFunctions(_, _, _, _)
\* The inner loop of a pass: compiler.compileFunction on the functions that are
\* (main) or are not named Main.
compileFunctions(cs, functions, main, moduleName) ==
    IF functions = <<>> \/ cs.err # "" THEN cs
    ELSE compileFunctions(IF isFunction(Head(functions), main)
                          THEN compileFunction(cs, Head(functions), moduleName) ELSE cs,
                          Tail(functions), main, moduleName)

RECURSIVE compilePass(_, _, _, _)
\* One of the three loops over filesData: the functions of the include files,
\* the auxiliary functions of the main files, every Main (compiled under "").
compilePass(cs, fs, all, pass) ==
    IF fs = <<>> \/ cs.err # "" THEN cs
    ELSE compilePass(
             IF pass = "Main"
             THEN compileFunctions(cs, functionsByModule(all, Head(fs).moduleName), TRUE, "")
             ELSE IF Head(fs).isMainFile <=> (pass = "auxiliary")
             THEN compileFunctions(cs, functionsByModule(all, Head(fs).moduleName), FALSE,
                                   Head(fs).moduleName)
             ELSE cs,
             Tail(fs), all, pass)

\* The object compiler after the three passes.
firstCompiler(fs) ==
    compilePass(compilePass(compilePass(Compiler, fs, fs, "include"), fs, fs, "auxiliary"),
                fs, fs, "Main")

\* hasMain after the third pass.
hasMain(fs) == \E i \in 1..Len(fs) : hasMainFunction(fs[i].ast)

RECURSIVE allStatements(_)
\* allStatements: the statements of the files, in the order of filesData.
allStatements(fs) ==
    IF fs = <<>> THEN <<>> ELSE Head(fs).ast \o allStatements(Tail(fs))

\* tailc returns 1 (or catches an exception) before it has an image.
Rejected(message) ==
    /\ compileErr' = message
    /\ phase' = "rejected"
    /\ UNCHANGED <<slotLog, program>>

\* main after the passes of the first compiler: an exception of theirs or no
\* Main ends the run; otherwise finalCompiler compiles allStatements and its
\* image is the one written.
written(first) ==
    IF first.err # "" THEN Rejected(first.err) /\ ast' = ast
    ELSE IF ~hasMain(files) THEN Rejected("No Main() function found") /\ ast' = ast
    ELSE Compiled(compile(Compiler, allStatements(files))) /\ ast' = allStatements(files)

\* tailc from the parsed files to the image.
Tailc ==
    /\ phase = "files"
    /\ written(firstCompiler(files))
    /\ UNCHANGED <<tokens, files, vmVars, fileVars, poolVars, frontVars>>

\* main after Parser::parse on a source file: parser errors end the run.
parsed(r) ==
    IF r.ps.thrown # "" THEN Rejected(r.ps.thrown) /\ files' = files
    ELSE IF r.ps.errors # <<>> THEN Rejected("Parser errors") /\ files' = files
    ELSE /\ files' = <<FileData("main", TRUE, r.node)>>
         /\ phase' = "files"
         /\ UNCHANGED <<compileErr, slotLog, program>>

\* tailc on the tokens of its input file.
Parse ==
    /\ phase = "tokens"
    /\ parsed(parse(Parser(tokens)))
    /\ UNCHANGED <<tokens, ast, vmVars, fileVars, poolVars, frontVars>>

\* ------------------------------------------------------------------------
\* Source files: token sequences as Lexer::tokenize returns them, and parsed
\* files with an include.
\* ------------------------------------------------------------------------

\* The text of the tokens that have one spelling.
Lexemes ==
    ("LEFT_PAREN" :> "(") @@ ("RIGHT_PAREN" :> ")") @@ ("LEFT_BRACE" :> "{")
    @@ ("RIGHT_BRACE" :> "}") @@ ("LEFT_BRACKET" :> "[") @@ ("RIGHT_BRACKET" :> "]")
    @@ ("COMMA" :> ",") @@ ("DOT" :> ".") @@ ("SEMICOLON" :> ";") @@ ("EQUAL" :> "=")
    @@ ("PLUS" :> "+") @@ ("LESS" :> "<") @@ ("FN" :> "fn") @@ ("INT" :> "int")
    @@ ("IF" :> "if") @@ ("WHILE" :> "while") @@ ("FOR" :> "for")
    @@ ("RETURN" :> "return") @@ ("BREAK" :> "break") @@ ("UNMUT" :> "unmut")
    @@ ("TRUE" :> "true") @@ ("ELSE" :> "else") @@ ("EOF_TOKEN" :> "")

Lex(type) == Token(type, Lexemes[type])
Id(name) == Token("IDENTIFIER", name)
Num(digit) == Token("NUMBER", <<digit>>)

\* fn Main() { int n = 0;
Header ==
    <<Lex("FN"), Id("Main"), Lex("LEFT_PAREN"), Lex("RIGHT_PAREN"), Lex("LEFT_BRACE"),
      Lex("INT"), Id("n"), Lex("EQUAL"), Num("0"), Lex("SEMICOLON")>>

\* }
Footer == <<Lex("RIGHT_BRACE"), Lex("EOF_TOKEN")>>

\* fn f(int a) { return a; }
Prelude ==
    <<Lex("FN"), Id("f"), Lex("LEFT_PAREN"), Lex("INT"), Id("a"), Lex("RIGHT_PAREN"),
      Lex("LEFT_BRACE"), Lex("RETURN"), Id("a"), Lex("SEMICOLON"), Lex("RIGHT_BRACE")>>

\* The right-hand sides: 5, n + 1, true, n.
ValueForms ==
    {<<Num("5")>>, <<Id("n"), Lex("PLUS"), Num("1")>>, <<Lex("TRUE")>>, <<Id("n")>>}

\* n = v;
AssignTokens(v) == <<Id("n"), Lex("EQUAL")>> \o v \o <<Lex("SEMICOLON")>>

\* The statements of the token sequences.
StatementForms ==
    {AssignTokens(v) : v \in ValueForms}
    \cup {<<Id("m"), Lex("EQUAL"), Num("5"), Lex("SEMICOLON")>>,
          <<Num("5"), Lex("EQUAL"), Id("n"), Lex("SEMICOLON")>>,
          <<Id("n"), Lex("EQUAL"), Num("5")>>,
          <<Id("n"), Lex("SEMICOLON")>>,
          <<Id("Console"), Lex("DOT"), Id("print"), Lex("LEFT_PAREN"), Id("n"),
            Lex("RIGHT_PAREN"), Lex("SEMICOLON")>>,
          <<Id("f"), Lex("LEFT_PAREN"), Num("1"), Lex("RIGHT_PAREN"), Lex("SEMICOLON")>>,
          <<Lex("RETURN"), Id("n"), Lex("SEMICOLON")>>,
          <<Lex("WHILE"), Lex("LEFT_PAREN"), Id("n"), Lex("LESS"), Num("1"),
            Lex("RIGHT_PAREN"), Lex("LEFT_BRACE"), Lex("BREAK"), Lex("SEMICOLON"),
            Lex("RIGHT_BRACE")>>,
          <<Lex("IF"), Lex("LEFT_PAREN"), Id("n"), Lex("RIGHT_PAREN"), Lex("LEFT_BRACE"),
            Id("n"), Lex("SEMICOLON"), Lex("RIGHT_BRACE")>>,
          <<Lex("INT"), Id("m"), Lex("EQUAL"), Id("n"), Lex("SEMICOLON")>>,
          <<Lex("UNMUT"), Lex("INT"), Id("m"), Lex("SEMICOLON")>>,
          <<Id("n"), Lex("LEFT_BRACKET"), Num("0"), Lex("RIGHT_BRACKET"), Lex("EQUAL"),
            Num("1"), Lex("SEMICOLON")>>,
          <<Lex("BREAK"), Lex("SEMICOLON")>>}

RECURSIVE BodiesUpTo(_)
\* The token sequences of at most n statements.
BodiesUpTo(n) ==
    IF n = 0 THEN {<<>>}
    ELSE BodiesUpTo(n - 1)
         \cup {b \o s : b \in BodiesUpTo(n - 1), s \in StatementForms}

\* The source of a file: the functions before Main and the statements of Main
\* after the declaration of n.
MainSource(prelude, body) == prelude \o Header \o body \o Footer

\* if (n) { n; }   and   else { f(1); }
IfTokens ==
    <<Lex("IF"), Lex("LEFT_PAREN"), Id("n"), Lex("RIGHT_PAREN"), Lex("LEFT_BRACE"),
      Id("n"), Lex("SEMICOLON"), Lex("RIGHT_BRACE")>>

ElseTokens ==
    <<Lex("ELSE"), Lex("LEFT_BRACE"), Id("f"), Lex("LEFT_PAREN"), Num("1"),
      Lex("RIGHT_PAREN"), Lex("SEMICOLON"), Lex("RIGHT_BRACE")>>

\* The statements that may follow an if in its block.
Siblings ==
    {<<>>,
     <<Lex("RETURN"), Id("n"), Lex("SEMICOLON")>>,
     <<Id("f"), Lex("LEFT_PAREN"), Num("1"), Lex("RIGHT_PAREN"), Lex("SEMICOLON")>>}

\* Main with an if statement, with and without else, and the statements after it.
IfSources ==
    {MainSource(Prelude, IfTokens \o e \o b) : e \in {<<>>, ElseTokens}, b \in Siblings}

\* R.m(n);
BridgeCall(receiver, method) ==
    <<Id(receiver), Lex("DOT"), Id(method), Lex("LEFT_PAREN"), Id("n"), Lex("RIGHT_PAREN"),
      Lex("SEMICOLON")>>

\* Calls of host functions: names the VM registers, and names whose receiver
\* the parser takes as native.
BridgeNames ==
    {<<"Console", "println">>, <<"System", "env">>, <<"System", "platform">>,
     <<"IO", "input">>, <<"IO", "toInt">>, <<"IO", "toFloat">>, <<"Str", "length">>,
     <<"Math", "sqrt">>, <<"File", "read">>}

BridgeSources == {MainSource(<<>>, BridgeCall(b[1], b[2])) : b \in BridgeNames}

Sources ==
    {MainSource(p, b) : p \in {<<>>, Prelude}, b \in BodiesUpTo(MaxStmts)}
    \cup IfSources \cup BridgeSources

LibH == Function("h", <<>>, <<Return(LitInt(5))>>)
LibK == Function("k", <<>>, <<Return(userCall("h", <<>>))>>)
AuxH == Function("aux", <<>>, <<Return(userCall("h", <<>>))>>)
AuxQ == Function("aux", <<>>, <<Return(Call("lib", "h", <<>>, FALSE))>>)
AuxSix == Function("six", <<>>, <<Return(LitInt(6))>>)
AuxShadow == Function("h", <<>>, <<Return(LitInt(6))>>)
MainOf(e) == Function("Main", <<>>, <<print(e)>>)

\* The functions of lib.tail.
LibLists == {<<>>, <<LibH>>, <<LibH, LibK>>, <<LibK, LibH>>, <<LibH, MainOf(LitInt(9))>>}

\* The functions of the main file other than Main.
AuxLists == {<<>>, <<AuxH>>, <<AuxQ>>, <<AuxSix>>, <<AuxSix, AuxH>>, <<AuxShadow>>}

MainExprs ==
    {userCall("aux", <<>>), userCall("six", <<>>), userCall("h", <<>>), userCall("k", <<>>),
     Call("lib", "h", <<>>, FALSE), LitInt(1)}

\* The statements of the main file: Main after or before the other functions,
\* or no Main.
MainFiles ==
    {a \o <<MainOf(e)>> : a \in AuxLists, e \in MainExprs}
    \cup {<<MainOf(e)>> \o a : a \in AuxLists, e \in MainExprs}
    \cup AuxLists

\* filesData: the input file, then the file it includes if it includes one.
FileSets ==
    {<<FileData("main", TRUE, m)>>
        \o (IF l = <<>> THEN <<>> ELSE <<FileData("lib", FALSE, l)>>) :
     m \in MainFiles, l \in LibLists}

DriverInit ==
    /\ compileErr = "" /\ slotLog = <<>> /\ ast = <<>> /\ program = BytecodeFile
    /\ VmInit /\ NoFile
    /\ compiler = Compiler /\ literal = NoLiteral /\ NoFront
    /\ \/ phase = "tokens" /\ tokens \in Sources /\ files = <<>>
       \/ phase = "files" /\ tokens = <<>> /\ files \in FileSets

DriverNext == Parse \/ Tailc \/ ExecuteStart \/ ExecuteLoop \/ ExecuteReturn

DriverSpec == DriverInit /\ [][DriverNext]_vars

\* ------------------------------------------------------------------------
\* Properties of the driver
\* ------------------------------------------------------------------------

\* tailc has ended on its input: rejected, or an image exists.
tailcDone == phase \in {"rejected", "image", "exec", "exited"}

\* The expression the parser reads from the tokens of a right-hand side.
valueOf(v) == parseExpression(Parser(v \o <<Lex("EOF_TOKEN")>>)).node

\* The code of fn Main() { int n = 0; n = v; } with the assignment an
\* AssignStmt: the declaration, the code of v, STORE slot(n), the return of Main
\* and HALT.
assignmentCode(v) ==
    compile(Compiler,
            <<Function("Main", <<>>,
                       <<VarDecl("int", "n", LitInt(0)), Assign("n", valueOf(v))>>)>>)
        .bytecode.code

\* C7: the source fn Main() { int n = 0; n = v; }, where n is a declared local,
\* parses and compiles without error, and the code of the image is the code of
\* v followed by STORE slot(n) inside Main.
AssignmentCompiles ==
    \A v \in ValueForms :
        (tokens = MainSource(<<>>, AssignTokens(v)) /\ tailcDone) =>
            /\ phase # "rejected"
            /\ program.code = assignmentCode(v)

\* The names of the functions other than Main of the main files (main) or of
\* the included files.
moduleFunctions(main) ==
    UNION {{f.name : f \in {files[i].ast[j] : j \in 1..Len(files[i].ast)}} :
           i \in {f \in 1..Len(files) : files[f].isMainFile <=> main}} \ {"Main"}

\* The entries of the function table are in the stated order: those of the
\* included files before those of the main files, Main last, and after the
\* code of Main only HALT.
statedOrder(functions, code) ==
    /\ \A i, j \in 1..Len(functions) :
          (functions[i].name \in moduleFunctions(FALSE)
           /\ functions[j].name \in moduleFunctions(TRUE)) => i < j
    /\ functions[Len(functions)].name = "Main"
    /\ \A i \in 1..Len(functions) :
          functions[i].address <= functions[Len(functions)].address
    /\ code[Len(code)].op = "HALT"
    /\ code[Len(code) - 1].op = "RET"

\* C10: in the image tailc writes, the functions of the included files come
\* before the functions of the main file and Main comes last, followed only by
\* HALT; and files whose functions compile in that order (a function of the
\* main file may call one of an included file) do get an image.
EmissionOrder ==
    files \in FileSets =>
        /\ phase \in {"image", "exec", "exited"} =>
               statedOrder(program.functions, program.code)
        /\ (tailcDone /\ firstCompiler(files).err = "" /\ hasMain(files)) =>
               phase # "rejected"

\* The indices of the function-table entries named name.
entriesNamed(name) ==
    {i \in 1..Len(program.functions) : program.functions[i].name = name}

\* The operands of the CALL instructions in the code of Main, the function
\* emitted last.
callsOfMain ==
    {program.code[i].operand :
        i \in {j \in 1..Len(program.code) :
                  /\ j > program.functions[Len(program.functions)].address
                  /\ program.code[j].op = "CALL"}}

\* main.tail includes lib, which defines h; Main calls lib.h().
qualifiedCall ==
    files = <<FileData("main", TRUE, <<MainOf(Call("lib", "h", <<>>, FALSE))>>),
              FileData("lib", FALSE, <<LibH>>)>>

\* C11: when the main file includes module lib, which defines h, and Main calls
\* lib.h(), the image tailc writes has a function-table entry named lib_h,
\* Main is the last entry, and the CALL in Main has the address of lib_h.
QualifiedRegistration ==
    (qualifiedCall /\ tailcDone) =>
        /\ phase # "rejected"
        /\ entriesNamed("lib_h") # {}
        /\ program.functions[Len(program.functions)].name = "Main"
        /\ callsOfMain # {}
        /\ \A a \in callsOfMain :
              \E i \in entriesNamed("lib_h") : program.functions[i].address = a

\* The main file and the included file both define h; Main calls h().
shadowingFiles ==
    /\ Len(files) = 2
    /\ files[1].ast \in {<<AuxShadow, MainOf(userCall("h", <<>>))>>,
                         <<MainOf(userCall("h", <<>>)), AuxShadow>>}
    /\ files[2].ast = <<LibH>>

\* The function at address a is the main file's h: its code is PUSH 6; RET.
mainFileDefinition(a) ==
    /\ a + 2 <= Len(program.code)
    /\ program.code[a + 1].op = "PUSH"
    /\ program.code[a + 1].operand < Len(program.constants)
    /\ program.constants[program.code[a + 1].operand + 1] = IntVal(6)
    /\ program.code[a + 2].op = "RET"

\* C12: when the main file and an included file both define h, the call h() in
\* Main targets the main file's definition in the image tailc writes.
Shadowing ==
    (shadowingFiles /\ tailcDone) =>
        /\ phase # "rejected"
        /\ callsOfMain # {}
        /\ \A a \in callsOfMain : mainFileDefinition(a)

\* The end of the code region of function-table entry i: the address of the
\* next function in the code, or the end of the code.
regionEnd(i) ==
    LET later == {program.functions[j].address : j \in 1..Len(program.functions)}
                     \cap (program.functions[i].address + 1)..Len(program.code)
    IN IF later = {} THEN Len(program.code)
       ELSE CHOOSE a \in later : \A b \in later : a <= b

\* The functions of the program are top-level statements: no function is
\* declared in the body of another.
topLevelFunctions ==
    \A i \in 1..Len(ast) :
        ast[i].k = "Function" =>
            \A j \in 1..Len(ast[i].body) : ast[i].body[j].k # "Function"

\* C13: in a compiled image the code region of every function is non-empty and
\* ends with RET or HALT (PUSH nil; RET is appended to a body that does not end
\* so, an empty body included), and no two functions have the same address;
\* stated for programs whose functions are all top-level.
ImplicitReturn ==
    (compiledImage /\ topLevelFunctions) =>
        /\ \A i \in 1..Len(program.functions) :
              /\ regionEnd(i) > program.functions[i].address
              /\ program.code[regionEnd(i)].op \in {"RET", "HALT"}
        /\ \A i, j \in 1..Len(program.functions) :
              i # j => program.functions[i].address # program.functions[j].address

\* ------------------------------------------------------------------------
\* The image file: tailc writes it, the VM loads it
\* ------------------------------------------------------------------------

\* An image with an entry in every section and a constant of every kind.
SampleImage ==
    [BytecodeFile EXCEPT
        !.code = <<Instruction("PUSH", 0), Instruction("JMP_IFNOT", UINT32_MAX),
                   Instruction("HALT", 0)>>,
        !.constants = <<IntVal(-5), FloatVal(3), BoolVal(TRUE), StrVal(0), NilVal,
                        Val("array_int", 2)>>,
        !.strings = <<"s", "two words">>,
        !.intArrays = <<<<1, -2>>, <<>>>>,
        !.floatArrays = <<<<2>>>>,
        !.stringArrays = <<<<"a", "bc">>>>,
        !.functions = <<FunctionInfo("f", 1, 1, 2), FunctionInfo("Main", 0, 0, 1)>>,
        !.nativeImports = <<"IO.toInt">>]

\* Images written by hand: the sample, the empty image, and the sample
\* without its pools.
HandImages ==
    {SampleImage, BytecodeFile,
     [SampleImage EXCEPT !.intArrays = <<>>, !.floatArrays = <<>>, !.stringArrays = <<>>]}

SampleFile == serialize(SampleImage)

\* The header of an image file: magic, version 1, flags 0.
FileHeader == SubSeq(SampleFile, 1, 8)

\* The sample file cut short at every length.
TruncatedFiles == {SubSeq(SampleFile, 1, n) : n \in 0..(Len(SampleFile) - 1)}

\* The sample file followed by bytes that belong to no section.
TrailingFiles == {SampleFile \o <<7>>, SampleFile \o <<0, 0, 0, 0, 1>>}

\* The sample file with one byte of its magic changed.
BadMagicFiles ==
    {[SampleFile EXCEPT ![i] = b] : i \in 1..4, b \in {0, 84, U8 - 1}} \ {SampleFile}

\* Declared counts and lengths of up to 2^32 - 1 with little or nothing behind
\* them: a code size whose fivefold wraps, a count of constants, of strings,
\* of int arrays, and the length of an int array.
NoCode == FileHeader \o writeUint32(0)
NoConstants == NoCode \o writeUint32(0)
NoStrings == NoConstants \o writeUint32(0)

CountFiles ==
    {FileHeader \o writeUint32(858993460) \o <<U8 - 1, 0, 0, 0>>,
     FileHeader \o writeUint32(858993460) \o <<U8 - 1, 0, 0>>,
     FileHeader \o writeUint32(3) \o <<U8 - 1, 0, 0, 0, 0>>,
     NoCode \o writeUint32(UINT32_MAX),
     NoCode \o writeUint32(2) \o <<3, 1>>,
     NoConstants \o writeUint32(UINT32_MAX),
     NoConstants \o writeUint32(1) \o writeUint32(9) \o <<65>>,
     NoStrings \o writeUint32(1) \o writeUint32(UINT32_MAX),
     NoStrings \o writeUint32(1) \o writeUint32(2) \o writeInt64(1)}

ImageFiles == TruncatedFiles \cup TrailingFiles \cup BadMagicFiles \cup CountFiles

\* What the memory after the buffer holds, when it is read.
Beyonds == {0, U8 - 1}

\* The heap of the VM's process, in elements a resize is granted.
MaxHeap == 1024

Heaps == {MaxHeap, UINT32_MAX}

\* tailc writes the image: the bytes of BytecodeFile::serialize.
Serialize ==
    /\ phase = "image"
    /\ wire' = serialize(program)
    /\ phase' = "file"
    /\ UNCHANGED <<tokens, files, ast, compileErr, slotLog, program, vmVars, load, poolVars, frontVars>>

\* What is kept of a call of deserialize: the value returned (or the
\* exception), the image filled, where ptr stopped, whether a byte at or
\* beyond the end was read.
loadedAs(d) ==
    load' = [result |-> d.result, image |-> d.image, ptr |-> d.ptr, overread |-> d.overread]

\* The VM loads the image file: BytecodeFile::deserialize into a fresh image.
Deserialize ==
    /\ phase = "file"
    /\ \E beyond \in Beyonds, heap \in Heaps : loadedAs(deserialize(wire, beyond, heap))
    /\ phase' = "loaded"
    /\ UNCHANGED <<tokens, files, ast, compileErr, slotLog, program, vmVars, wire, poolVars, frontVars>>

\* The programs whose image is written to a file: every program but the one of
\* U8 declarations, whose file of 2 * U8 instructions is read byte by byte.
WirePrograms == Programs \ {<<Function("Main", <<>>, ManyDecls)>>}

WireInit ==
    /\ compileErr = "" /\ slotLog = <<>> /\ tokens = <<>> /\ files = <<>>
    /\ VmInit
    /\ compiler = Compiler /\ literal = NoLiteral /\ NoFront
    /\ load = [result |-> ""]
    /\ \/ phase = "source" /\ ast \in WirePrograms /\ program = BytecodeFile /\ wire = <<>>
       \/ phase = "image" /\ ast = <<>> /\ program \in HandImages /\ wire = <<>>
       \/ phase = "file" /\ ast = <<>> /\ program = BytecodeFile /\ wire \in ImageFiles

WireNext == Compile \/ Serialize \/ Deserialize

WireSpec == WireInit /\ [][WireNext]_vars

\* ------------------------------------------------------------------------
\* Properties of the image file
\* ------------------------------------------------------------------------

\* The image file was written by serialize from the image in program.
serialized == phase \in {"file", "loaded"} /\ wire = serialize(program)

\* The image in program came out of Compiler::compile and its file was loaded.
reloaded == phase = "loaded" /\ ast # <<>>

\* C14: the file of a compiled image loads: deserialize returns true and the
\* image it fills equals the compiled image in every field.
RoundTrip ==
    reloaded =>
        /\ load.result = "true"
        /\ \A field \in DOMAIN BytecodeFile : load.image[field] = program[field]

\* A compiled image with a bool and a string among its constants and more
\* than one function was written and loaded.
RoundTripWitness ==
    /\ reloaded /\ load.result = "true"
    /\ \E i, j \in 1..Len(program.constants) :
           program.constants[i].t = "bool" /\ program.constants[j].t = "string"
    /\ Len(program.functions) > 1 /\ program.strings # <<>>

\* The constant as the format states it: the type byte and eight bytes of
\* payload, the payload of a bool and of an index padded with zeros.
statedConstant(cst) ==
    <<typeByte(cst.t)>>
    \o (CASE cst.t = "int" -> writeInt64(cst.v)
          [] cst.t = "float" -> writeDouble(cst.v)
          [] cst.t = "bool" -> <<cst.v, 0, 0, 0, 0, 0, 0, 0>>
          [] cst.t = "nil" -> <<0, 0, 0, 0, 0, 0, 0, 0>>
          [] OTHER -> writeUint32(cst.v) \o <<0, 0, 0, 0>>)

\* Where the constants section starts in the file: after the header, the
\* size of the code and the instructions.
constantsAt == 12 + 5 * Len(program.code)

\* The first n bytes of the file from offset at, fewer when the file ends before.
fileBytes(at, n) ==
    SubSeq(wire, at + 1, IF at + n > Len(wire) THEN Len(wire) ELSE at + n)

\* C15: in a file written by serialize every constant takes its type byte and
\* eight bytes of payload, so the constants section is the count and nine
\* bytes per constant, and the strings section follows it.
ConstantLayout ==
    serialized =>
        /\ fileBytes(constantsAt, 4 + 9 * Len(program.constants)) =
               writeUint32(Len(program.constants))
               \o concat([i \in 1..Len(program.constants) |->
                              statedConstant(program.constants[i])])
        /\ fileBytes(constantsAt + 4 + 9 * Len(program.constants), 4) =
               writeUint32(Len(program.strings))

\* C16: deserialize reads no byte at or beyond the end of its input; an input
\* that ends before what its counts and lengths declare makes it return false;
\* bytes after a complete image do not.
DeserializeBounds ==
    phase = "loaded" =>
        /\ ~load.overread
        /\ wire \in TruncatedFiles \cup CountFiles => load.result = "false"
        /\ wire \in TrailingFiles => load.result = "true"

\* The 32-bit value of the first four bytes of the file, little-endian.
fileMagic == wordOf(SubSeq(wire, 1, 4))

\* C17: the file of an image with the default header starts with the bytes
\* 4C 49 41 54, and deserialize returns false on a file whose first four
\* bytes are another value.
Magic ==
    /\ (serialized /\ program.magic = BytecodeFile.magic) =>
           SubSeq(wire, 1, 4) = <<76, 73, 65, 84>>
    /\ (phase = "loaded" /\ Len(wire) >= 4 /\ fileMagic # 1413564748) =>
           load.result = "false"

\* A file that is complete but for its magic was refused.
MagicWitness ==
    /\ phase = "loaded" /\ wire \in BadMagicFiles
    /\ fileMagic # 1413564748 /\ load.result = "false"

\* ------------------------------------------------------------------------
\* Literal insertions into a compiler, in any order
\* ------------------------------------------------------------------------

\* The number of literals inserted into one compiler.
MaxLiterals == 4

IntLiterals == {0, 1}
FloatLiterals == {0, 1}
StringLiterals == {"", "s", "G"}

\* The compiler after the insertion; value is what was inserted, of kind type.
inserted(cs, type, value) ==
    /\ compiler' = cs
    /\ literal' = [t |-> type, v |-> value]
    /\ UNCHANGED <<phase, tokens, files, ast, compileErr, slotLog, program, vmVars, fileVars,
                   frontVars>>

inserting == phase = "literals" /\ Len(compiler.bytecode.code) < MaxLiterals

EmitPushInt ==
    inserting /\ \E value \in IntLiterals : inserted(emitPushInt(compiler, value), "int", value)

EmitPushFloat ==
    inserting
    /\ \E value \in FloatLiterals : inserted(emitPushFloat(compiler, value), "float", value)

EmitPushBool ==
    inserting
    /\ \E value \in BOOLEAN :
           inserted(emitPushBool(compiler, value), "bool", IF value THEN 1 ELSE 0)

EmitPushString ==
    inserting
    /\ \E value \in StringLiterals : inserted(emitPushString(compiler, value), "string", value)

EmitPushNil == inserting /\ inserted(emitPushNil(compiler), "nil", 0)

LiteralInit ==
    /\ phase = "literals"
    /\ compileErr = "" /\ slotLog = <<>> /\ tokens = <<>> /\ files = <<>> /\ ast = <<>>
    /\ program = BytecodeFile
    /\ VmInit /\ NoFile
    /\ compiler = Compiler /\ literal = NoLiteral /\ NoFront

LiteralNext == EmitPushInt \/ EmitPushFloat \/ EmitPushBool \/ EmitPushString \/ EmitPushNil

LiteralSpec == LiteralInit /\ [][LiteralNext]_vars

\* The kinds of constant the search of the pool covers.
SearchedKinds == {"int", "float", "bool", "string"}

\* What the i-th constant of the pool holds: the string of a string constant,
\* the number of another.
held(cs, i) ==
    IF cs.bytecode.constants[i].t = "string"
    THEN cs.bytecode.strings[cs.bytecode.constants[i].v + 1]
    ELSE cs.bytecode.constants[i].v

\* The constants of the pool of the literal's kind that hold its value.
entriesHolding(cs, lit) ==
    {i \in 1..Len(cs.bytecode.constants) :
        cs.bytecode.constants[i].t = lit.t /\ held(cs, i) = lit.v}

\* No value is held by two constants of one searched kind or by two strings
\* of the table.
noDuplicates(cs) ==
    /\ \A i, j \in 1..Len(cs.bytecode.constants) :
           (i < j /\ cs.bytecode.constants[i].t = cs.bytecode.constants[j].t
                  /\ cs.bytecode.constants[i].t \in SearchedKinds) => held(cs, i) # held(cs, j)
    /\ \A i, j \in 1..Len(cs.bytecode.strings) :
           i < j => cs.bytecode.strings[i] # cs.bytecode.strings[j]

\* The index the insertion returned: the operand of the PUSH it emitted.
returned(cs) == cs.bytecode.code[Len(cs.bytecode.code)].operand

\* C18: after every insertion of a literal no two constants of kind int,
\* float, bool or string hold the same value and no two strings of the table
\* are equal; the insertion of a value the pool holds returns the index of the
\* constant that holds it and changes neither the pool nor the table.
Dedup ==
    [][/\ noDuplicates(compiler')
       /\ (literal'.t \in SearchedKinds /\ entriesHolding(compiler, literal') # {}) =>
              /\ compiler'.bytecode.constants = compiler.bytecode.constants
              /\ compiler'.bytecode.strings = compiler.bytecode.strings
              /\ returned(compiler') + 1 \in entriesHolding(compiler, literal')]_vars

\* A value was inserted a second time: two PUSHes of the code have the same
\* operand, while the pool holds a string and another constant after it.
DedupWitness ==
    /\ phase = "literals"
    /\ \E i, j \in 1..Len(compiler.bytecode.code) :
           i < j /\ compiler.bytecode.code[i].operand = compiler.bytecode.code[j].operand
    /\ \E i, j \in 1..Len(compiler.bytecode.constants) :
           i < j /\ compiler.bytecode.constants[i].t = "string"
    /\ literal.t \in SearchedKinds /\ Len(compiler.bytecode.code) = Len(compiler.bytecode.constants) + 1

\* ------------------------------------------------------------------------
\* Properties of the dispatch loop
\* ------------------------------------------------------------------------

\* C19: the dispatch of a HALT clears running without an error, and after it
\* no instruction is dispatched: the only step left is the return of execute.
HaltIdempotent ==
    [][/\ (steps' = steps + 1 /\ current.op = "HALT") => (~running' /\ vmErr' = "")
       /\ (steps > 0 /\ last.op = "HALT") =>
              (steps' = steps /\ last' = last /\ out' = out /\ stack' = stack
                  /\ phase' = "exited")]_vars

\* execute returned after a HALT that was not the last instruction of the code.
HaltIdempotentWitness ==
    /\ phase = "exited" /\ vmErr = "" /\ steps > 0
    /\ last.op = "HALT" /\ last.pc + 1 < Len(program.code)

\* The step dispatches a CALL that throws nothing.
called == steps' = steps + 1 /\ current.op = "CALL" /\ vmErr' = ""

\* C20: CALL of f takes f.arity values off the stack, the i-th pushed of them
\* into the slot local_start + i of the new frame, and leaves the stack below
\* them as it was.
ArgumentTransfer ==
    [][called =>
         /\ stack' = SubSeq(stack, 1, Len(stack) - calledFunction(current.operand).arity)
         /\ \A i \in 1..calledFunction(current.operand).arity :
                locals'[Len(locals) + i] =
                    stack[Len(stack) - calledFunction(current.operand).arity + i]]_vars

\* ------------------------------------------------------------------------
\* Properties of the compiled functions
\* ------------------------------------------------------------------------

\* The operands of the LOADs and STOREs in the code region of function-table
\* entry i.
\* The addresses of the code compiled for function-table entry i. The entries
\* are in the order of compilation: an entry whose address a later entry shares
\* was compiled to no instruction.
codeOf(i) ==
    IF \E j \in (i + 1)..Len(program.functions) :
           program.functions[j].address = program.functions[i].address
    THEN {}
    ELSE (program.functions[i].address + 1)..regionEnd(i)

\* The slots the LOAD and STORE instructions of function-table entry i name.
slotsUsed(i) ==
    {program.code[a].operand :
        a \in {b \in codeOf(i) : program.code[b].op \in {"LOAD", "STORE"}}}

\* C21: in a compiled image the locals of every function-table entry exceed
\* every slot a LOAD or STORE of the function's code names; stated for
\* programs whose functions are all top-level.
LocalCount ==
    (compiledImage /\ topLevelFunctions) =>
        \A i \in 1..Len(program.functions) :
            \A slot \in slotsUsed(i) : slot < program.functions[i].locals

\* ------------------------------------------------------------------------
\* Properties of the instructions
\* ------------------------------------------------------------------------

\* The host callback the current CALL_NATIVE resolves to ("" when the current
\* instruction is no CALL_NATIVE or its index is past the imports).
callee ==
    IF current.op = "CALL_NATIVE" /\ current.operand < Len(program.nativeImports)
    THEN program.nativeImports[current.operand + 1]
    ELSE ""

\* The operand stack the callback name leaves when it is called on the
\* machine as it is (the console callbacks read nothing from the host).
stackAfterNative(name) ==
    native(machine, name, CHOOSE host \in HostResults : TRUE).stack

\* C22: PRINT leaves the operand stack Console.print leaves from the same
\* stack, and a CALL_NATIVE of Console.print or Console.println leaves the
\* stack PRINT or PRINTLN leaves.
PrintEquivalence ==
    [][dispatched =>
         /\ current.op = "PRINT" => stack' = stackAfterNative("Console.print")
         /\ current.op = "PRINTLN" => stack' = stackAfterNative("Console.println")
         /\ callee = "Console.print" => stack' = opPrint(machine, FALSE).stack
         /\ callee = "Console.println" => stack' = opPrint(machine, TRUE).stack]_vars

\* The two operands of the current instruction: b on top of the stack, a below.
operandA == stack[Len(stack) - 1]
operandB == stack[Len(stack)]

bothInt == operandA.t = "int" /\ operandB.t = "int"
bothFloat == operandA.t = "float" /\ operandB.t = "float"
zeroDivisor == operandB.t \in {"int", "float"} /\ operandB.v = 0

\* The step is an iteration of the dispatch loop on an arithmetic instruction
\* that finds its two operands.
arithmetic(ops) ==
    /\ phase = "exec" /\ steps' = steps + 1
    /\ current.op \in ops /\ Len(stack) >= 2

\* The VM has stopped on the runtime error msg raised by the instruction op.
failedAt(op, msg) == phase = "exited" /\ last.op = op /\ vmErr = msg

invalidImport ==
    current.op = "CALL_NATIVE" /\ current.operand >= Len(program.nativeImports)

\* The current instruction is a CALL_NATIVE of an import no host callback is
\* registered for.
unregisteredImport == callee # "" /\ callee \notin nativeFuncs

\* C24: a CALL_NATIVE whose operand is no index of the native imports, or whose
\* import has no registered callback, raises a runtime error and leaves the
\* operand stack as it was; after the error no instruction executes.
UnknownNative ==
    [][/\ (phase = "exec" /\ steps' = steps + 1 /\ invalidImport) =>
            vmErr' = "Native import index out of bounds" /\ stack' = stack
       /\ (phase = "exec" /\ steps' = steps + 1 /\ unregisteredImport) =>
            vmErr' = "Native function not implemented: " \o callee /\ stack' = stack
       /\ vmErr # "" => UNCHANGED <<running, pc, stack, out, steps, last>>]_vars

\* The VM stopped at a CALL_NATIVE of Math.sqrt with a value on the stack.
UnknownNativeWitness ==
    /\ failedAt("CALL_NATIVE", "Native function not implemented: Math.sqrt")
    /\ stack # <<>>

\* ------------------------------------------------------------------------
\* Properties of the compiler's errors
\* ------------------------------------------------------------------------

RECURSIVE escapes(_)
\* The statement holds a break or a continue that no loop of the statement
\* encloses.
escapes(stmt) ==
    CASE stmt.k \in {"Break", "Continue"} -> TRUE
      [] stmt.k = "Block" ->
           \E i \in 1..Len(stmt.statements) : escapes(stmt.statements[i])
      [] stmt.k = "If" ->
           escapes(stmt.thenBranch)
           \/ (stmt.elseBranch # NoNode /\ escapes(stmt.elseBranch))
      [] OTHER -> FALSE

\* A function of the program holds a break or continue outside every loop.
breakOutsideLoop ==
    \E i \in 1..Len(ast) :
        ast[i].k = "Function" /\ \E j \in 1..Len(ast[i].body) : escapes(ast[i].body[j])

\* Compiler::compile threw: tailc holds a message and no image.
aborted == phase = "rejected" /\ compileErr # "" /\ program = BytecodeFile

\* C25: once compile has run on a program that reads or assigns a variable no
\* declaration in scope names, calls a function that is not registered, or
\* holds a break or continue outside every loop, the compilation has thrown
\* and there is no image.
SemanticErrors ==
    (phase # "source" /\ ast # <<>>) =>
        /\ ast \in UndefinedVariables =>
               aborted /\ compileErr \in {"Undefined variable: z", "Undefined variable: b"}
        /\ ast \in UnknownFunctions =>
               aborted /\ compileErr \in {"Function .h not found", "Function Lib.h not found",
                                          "Function .g not found"}
        /\ breakOutsideLoop =>
               aborted /\ compileErr \in {"Break outside loop", "Continue outside loop"}

\* Compilation was aborted at a break outside a loop.
SemanticErrorsWitness == aborted /\ breakOutsideLoop /\ compileErr = "Break outside loop"

\* The image holds an instruction that negates the value before it.
negates == \E a \in 2..Len(program.code) : program.code[a].op = "NEG"

\* C26: a program that holds a unary minus compiles without error, to code
\* that holds a negating instruction after the operand's code.
UnaryMinus ==
    (ast \in NegationPrograms /\ phase # "source") =>
        compileErr = "" /\ phase # "rejected" /\ negates

\* The string forms of the two operands of the current instruction are equal.
sameText ==
    toString(operandA, program.strings) = toString(operandB, program.strings)

\* The stack after an instruction that replaces its two operands by val.
replaced(val) == Append(SubSeq(stack, 1, Len(stack) - 2), val)

\* C27: EQ replaces its two operands by true exactly when their string forms
\* are equal, whatever their types; NEQ replaces them by the negation; 6 ==
\* "6" and nil == "nil" print true, and their != print false.
StringEquality ==
    /\ [][/\ arithmetic({"EQ"}) => vmErr' = "" /\ stack' = replaced(BoolVal(sameText))
          /\ arithmetic({"NEQ"}) => vmErr' = "" /\ stack' = replaced(BoolVal(~sameText))]_vars
    /\ [](phase = "exited" =>
             /\ ast \in {EqualityProbe(LitInt(6), "==", LitStr("6")),
                          EqualityProbe(LitNil, "==", LitStr("nil"))} => out = <<"true">>
             /\ ast \in {EqualityProbe(LitInt(6), "!=", LitStr("6")),
                          EqualityProbe(LitNil, "!=", LitStr("nil"))} => out = <<"false">>)

\* The comparison of the int 6 with the string "6" has printed true.
StringEqualityWitness ==
    phase = "exited" /\ ast = EqualityProbe(LitInt(6), "==", LitStr("6")) /\ out = <<"true">>

\* ------------------------------------------------------------------------
\* The lexer (shared/lexer.cpp): the source is a sequence of characters
\* ------------------------------------------------------------------------

Quote == "\""
Backslash == "\\"
Newline == "\n"

\* A character outside 0..127, and what peek() returns at the end of the source.
HighByte == "0x80"
Nul == "0x00"

\* How isdigit and isalpha of <cctype> class a character outside 0..127 (a
\* negative char is no valid argument: the result is what the library's table
\* holds there).
CTypes == {"digit", "alpha", "none"}

\* Lexer::Lexer
Lexer(src, ctype) ==
    [source |-> src, start |-> 0, current |-> 0, line |-> 1, column |-> 1,
     tokens |-> <<>>, errors |-> <<>>, ctype |-> ctype]

\* Token(type, text, line, column)
LexToken(type, text, line, column) ==
    [type |-> type, text |-> text, line |-> line, column |-> column]

isdigit(c, ctype) == c \in {Digit[i] : i \in 1..10} \/ (c = HighByte /\ ctype = "digit")

isalpha(c, ctype) == c \in {"i", "f", "n", "t", "r"} \/ (c = HighByte /\ ctype = "alpha")

isalnum(c, ctype) == isalpha(c, ctype) \/ isdigit(c, ctype)

\* Lexer::keywords, the entries the letters of the model can spell.
keywords == (<<"i", "f">> :> "IF") @@ (<<"f", "n">> :> "FN") @@ (<<"i", "n", "t">> :> "INT")

\* Lexer::isAtEnd
lexIsAtEnd(lx) == lx.current >= Len(lx.source)

\* Lexer::peek
lexPeek(lx) == IF lexIsAtEnd(lx) THEN Nul ELSE lx.source[lx.current + 1]

\* Lexer::peekNext
peekNext(lx) == IF lx.current + 1 >= Len(lx.source) THEN Nul ELSE lx.source[lx.current + 2]

\* line++; column = 1;
newLine(lx) == [lx EXCEPT !.line = @ + 1, !.column = 1]

\* Lexer::advance, the lexer it leaves.
lexAdvance(lx) ==
    IF lexIsAtEnd(lx) THEN lx
    ELSE IF lexPeek(lx) = Newline THEN newLine([lx EXCEPT !.current = @ + 1])
    ELSE [lx EXCEPT !.current = @ + 1, !.column = @ + 1]

\* Lexer::addToken(type, text)
addTokenText(lx, type, text) ==
    [lx EXCEPT !.tokens = Append(@, LexToken(type, text, lx.line, lx.column))]

\* Lexer::addToken(type): the text is source.substr(start, current - start).
addToken(lx, type) == addTokenText(lx, type, SubSeq(lx.source, lx.start + 1, lx.current))

\* An error entry that also ends the token sequence.
lexErrorEnding(lx, message) ==
    addToken([lx EXCEPT !.errors = Append(@, [line |-> lx.line, column |-> lx.column,
                                               message |-> message])],
             "EOF_TOKEN")

\* Lexer::error
lexError(lx, message) ==
    [lx EXCEPT !.errors = Append(@, [line |-> lx.line, column |-> lx.column,
                                     message |-> message])]

\* addToken(match(expected) ? matched : single)
addMatched(lx, expected, matched, single) ==
    IF ~lexIsAtEnd(lx) /\ lexPeek(lx) = expected THEN addToken(lexAdvance(lx), matched)
    ELSE addToken(lx, single)

RECURSIVE skipComment(_)
\* while (peek() != '\n' && !isAtEnd()) advance();
skipComment(lx) ==
    IF lexPeek(lx) # Newline /\ ~lexIsAtEnd(lx) THEN skipComment(lexAdvance(lx)) ELSE lx

\* scanString: what an escape adds to the value.
escaped(c) ==
    CASE c = "n" -> <<Newline>>
      [] c = "t" -> <<"\t">>
      [] c = "r" -> <<"\r">>
      [] c = Quote -> <<Quote>>
      [] c = Backslash -> <<Backslash>>
      [] OTHER -> <<Backslash, c>>

RECURSIVE scanStringLoop(_, _)
\* scanString, the loop: the lexer and the value at the closing quote or at
\* the end of the source.
scanStringLoop(lx, value) ==
    IF lexPeek(lx) = Quote \/ lexIsAtEnd(lx) THEN [lx |-> lx, value |-> value]
    ELSE IF lexPeek(lx) = Backslash
    THEN scanStringLoop(lexAdvance(lexAdvance(lx)),
                        value \o escaped(lexPeek(lexAdvance(lx))))
    ELSE scanStringLoop(lexAdvance(IF lexPeek(lx) = Newline THEN newLine(lx) ELSE lx),
                        Append(value, lexPeek(lx)))

\* scanString, after the loop.
closeString(r) ==
    IF lexIsAtEnd(r.lx) THEN lexError(r.lx, "Unterminated string")
    ELSE addTokenText(lexAdvance(r.lx), "STRING", r.value)

\* Lexer::scanString
scanString(lx) == closeString(scanStringLoop(lx, <<>>))

RECURSIVE skipDigits(_)
\* while (isdigit(peek())) advance();
skipDigits(lx) == IF isdigit(lexPeek(lx), lx.ctype) THEN skipDigits(lexAdvance(lx)) ELSE lx

\* scanNumber, after the first run of digits.
scanFraction(lx) ==
    IF lexPeek(lx) = "." /\ isdigit(peekNext(lx), lx.ctype)
    THEN addToken(skipDigits(lexAdvance(lx)), "FLOAT")
    ELSE addToken(lx, "NUMBER")

\* Lexer::scanNumber
scanNumber(lx) == scanFraction(skipDigits(lx))

RECURSIVE skipWord(_)
\* while (isalnum(peek()) || peek() == '_') advance();
skipWord(lx) ==
    IF isalnum(lexPeek(lx), lx.ctype) \/ lexPeek(lx) = "_" THEN skipWord(lexAdvance(lx))
    ELSE lx

\* scanIdentifier, after the loop.
addWord(lx, text) ==
    IF text \in DOMAIN keywords THEN addToken(lx, keywords[text])
    ELSE addTokenText(lx, "IDENTIFIER", text)

\* Lexer::scanIdentifier
scanIdentifier(lx) ==
    addWord(skipWord(lx), SubSeq(lx.source, lx.start + 1, skipWord(lx).current))

\* scanToken: the single-character tokens.
SingleTokens ==
    ("(" :> "LEFT_PAREN") @@ (")" :> "RIGHT_PAREN") @@ ("{" :> "LEFT_BRACE")
    @@ ("}" :> "RIGHT_BRACE") @@ ("[" :> "LEFT_BRACKET") @@ ("]" :> "RIGHT_BRACKET")
    @@ ("," :> "COMMA") @@ ("." :> "DOT") @@ (";" :> "SEMICOLON") @@ (":" :> "COLON")

\* scanToken: the operators, each with the token of its = form.
OperatorTokens ==
    ("!" :> <<"BANG_EQUAL", "BANG">>) @@ ("=" :> <<"EQUAL_EQUAL", "EQUAL">>)
    @@ (">" :> <<"GREATER_EQUAL", "GREATER">>) @@ ("<" :> <<"LESS_EQUAL", "LESS">>)
    @@ ("+" :> <<"PLUS_EQUAL", "PLUS">>) @@ ("-" :> <<"MINUS_EQUAL", "MINUS">>)
    @@ ("*" :> <<"STAR_EQUAL", "STAR">>) @@ ("%" :> <<"MOD_EQUAL", "MOD">>)

\* scanToken after char c = advance(): lx is the lexer after the advance.
scanned(lx, c) ==
    CASE c \in DOMAIN SingleTokens -> addToken(lx, SingleTokens[c])
      [] c \in DOMAIN OperatorTokens ->
           addMatched(lx, "=", OperatorTokens[c][1], OperatorTokens[c][2])
      [] c = "/" ->
           IF ~lexIsAtEnd(lx) /\ lexPeek(lx) = "/" THEN skipComment(lexAdvance(lx))
           ELSE addMatched(lx, "=", "SLASH_EQUAL", "SLASH")
      [] c \in {" ", "\r", "\t"} -> lx
      [] c = Newline -> newLine(lx)
      [] c = Quote -> scanString(lx)
      [] OTHER ->
           IF isdigit(c, lx.ctype) THEN scanNumber(lx)
           ELSE IF isalpha(c, lx.ctype) \/ c = "_" THEN scanIdentifier(lx)
           ELSE lexError(lx, "Unexpected character: " \o c)

\* Lexer::scanToken
scanToken(lx) == scanned(lexAdvance(lx), lexPeek(lx))

\* tokens.push_back(Token(TokenType::EOF_TOKEN, "", line, column))
endOfFile(lx) == addTokenText(lx, "EOF_TOKEN", <<>>)

\* ------------------------------------------------------------------------
\* Lexer::tokenize on the sources of at most MaxSource characters
\* ------------------------------------------------------------------------

MaxSource == 3

Characters == {"i", "f", "1", ".", Quote, Backslash, "/", "=", Newline, "#", HighByte}

RECURSIVE TextsUpTo(_)
TextsUpTo(n) ==
    IF n = 0 THEN {<<>>}
    ELSE TextsUpTo(n - 1)
         \cup {Append(t, c) : t \in {x \in TextsUpTo(n - 1) : Len(x) = n - 1}, c \in Characters}

SourceTexts == TextsUpTo(MaxSource)

\* tokenize, one iteration of its loop: start = current; scanToken();
ScanToken ==
    /\ phase = "lexing" /\ ~lexIsAtEnd(lexer)
    /\ lexer' = scanToken([lexer EXCEPT !.start = lexer.current])
    /\ UNCHANGED <<phase, tokens, files, ast, compileErr, slotLog, program, vmVars, fileVars,
                   poolVars, parser, includes>>

\* tokenize, after its loop: the eof token is added and the tokens are returned.
TokenizeReturn ==
    /\ phase = "lexing" /\ lexIsAtEnd(lexer)
    /\ lexer' = endOfFile(lexer)
    /\ phase' = "lexed"
    /\ UNCHANGED <<tokens, files, ast, compileErr, slotLog, program, vmVars, fileVars,
                   poolVars, parser, includes>>

LexInit ==
    /\ phase = "lexing"
    /\ compileErr = "" /\ slotLog = <<>> /\ tokens = <<>> /\ files = <<>> /\ ast = <<>>
    /\ program = BytecodeFile
    /\ VmInit /\ NoFile
    /\ compiler = Compiler /\ literal = NoLiteral
    /\ parser = [tokens |-> <<>>] /\ includes = NoIncludes
    /\ \E src \in SourceTexts :
          \E ctype \in (IF \E i \in 1..Len(src) : src[i] = HighByte THEN CTypes ELSE {"none"}) :
              lexer = Lexer(src, ctype)

LexNext == ScanToken \/ TokenizeReturn

LexSpec == LexInit /\ [][LexNext]_vars

\* The positions of the eof tokens among the tokens.
eofTokens == {i \in 1..Len(lexer.tokens) : lexer.tokens[i].type = "EOF_TOKEN"}

\* C28: every iteration of the loop of tokenize consumes at least one
\* character of the source and none past its end, so the loop ends after at
\* most as many iterations as the source has characters; the tokens tokenize
\* returns hold exactly one eof token, the last, whatever errors were recorded.
LexTotality ==
    /\ [][phase' = "lexing" =>
            lexer.current < lexer'.current /\ lexer'.current <= Len(lexer.source)]_vars
    /\ [](phase = "lexing" => lexer.current <= Len(lexer.source) /\ eofTokens = {})
    /\ [](phase = "lexed" => eofTokens = {Len(lexer.tokens)})

\* tokenize returned from a source that ends inside a string, after a backslash.
LexTotalityWitness ==
    /\ phase = "lexed" /\ lexer.source = <<Quote, "i", Backslash>>
    /\ lexer.errors # <<>> /\ lexer.errors[1].message = "Unterminated string"
    /\ eofTokens = {Len(lexer.tokens)}

\* ------------------------------------------------------------------------
\* Parser::parse on the token sequences of at most MaxTokens tokens and eof
\* ------------------------------------------------------------------------

MaxTokens == 3

\* A NUMBER token of twenty digits.
BigNumber == Token("NUMBER", [i \in 1..20 |-> "9"])

TokenAlphabet ==
    {Id("x"), Num("1"), BigNumber, Lex("SEMICOLON"), Lex("LEFT_PAREN"), Lex("RIGHT_PAREN"),
     Lex("LEFT_BRACE"), Lex("RIGHT_BRACE"), Lex("FN"), Lex("INT"), Lex("EQUAL")}

RECURSIVE TokensUpTo(_)
TokensUpTo(n) ==
    IF n = 0 THEN {<<>>}
    ELSE TokensUpTo(n - 1)
         \cup {Append(t, c) : t \in {x \in TokensUpTo(n - 1) : Len(x) = n - 1},
                              c \in TokenAlphabet}

TokenTexts == {t \o <<Lex("EOF_TOKEN")>> : t \in TokensUpTo(MaxTokens)}

\* if (stmt) statements.push_back(stmt);
declared(d) ==
    /\ parser' = d.ps
    /\ ast' = IF d.node # NoNode THEN Append(ast, d.node) ELSE ast

\* parse, one iteration of its loop.
ParseDeclaration ==
    /\ phase = "parsing" /\ parser.thrown = "" /\ ~isAtEnd(parser)
    /\ declared(parseDeclaration(parser))
    /\ UNCHANGED <<phase, tokens, files, compileErr, slotLog, program, vmVars, fileVars,
                   poolVars, lexer, includes>>

\* parse, after its loop: the statements are returned.
ParseReturn ==
    /\ phase = "parsing" /\ parser.thrown = "" /\ isAtEnd(parser)
    /\ phase' = "parsed"
    /\ UNCHANGED <<tokens, files, ast, compileErr, slotLog, program, vmVars, fileVars,
                   poolVars, frontVars>>

\* An exception no catch of the parser takes leaves parse.
ParseThrow ==
    /\ phase = "parsing" /\ parser.thrown # ""
    /\ phase' = "thrown"
    /\ UNCHANGED <<tokens, files, ast, compileErr, slotLog, program, vmVars, fileVars,
                   poolVars, frontVars>>

ParseInit ==
    /\ phase = "parsing"
    /\ compileErr = "" /\ slotLog = <<>> /\ files = <<>> /\ ast = <<>>
    /\ program = BytecodeFile
    /\ VmInit /\ NoFile
    /\ compiler = Compiler /\ literal = NoLiteral
    /\ lexer = [source |-> <<>>] /\ includes = NoIncludes
    /\ tokens \in TokenTexts
    /\ parser = Parser(tokens)

ParseNext == ParseDeclaration \/ ParseReturn \/ ParseThrow

ParseSpec == ParseInit /\ [][ParseNext]_vars

\* A Parser is at work or has finished.
inParse == phase \in {"parsing", "parsed", "thrown"}

\* C29: parse returns normally on every token sequence that ends in eof: no
\* exception leaves it, every iteration of its loop consumes a token, an
\* iteration that yields no statement records an error, and every synchronize
\* consumes at least one token.
ParseResilience ==
    /\ [](phase # "thrown")
    /\ [][(phase = "parsing" /\ parser' # parser) =>
            /\ parser'.pos > parser.pos
            /\ ast' = ast => Len(parser'.errors) > Len(parser.errors)]_vars
    /\ [](inParse =>
            \A i \in 1..Len(parser.recoveries) :
                parser.recoveries[i].to > parser.recoveries[i].from)

\* ------------------------------------------------------------------------
\* Properties of the loops
\* ------------------------------------------------------------------------

\* The code holds cond; JMP_IFNOT exit; body; JMP loopStart (addresses count
\* from 0, so the instruction before address exit is code[exit]).
lowered ==
    \E loopStart \in 0..Len(program.code) : \E j \in (loopStart + 2)..Len(program.code) :
        /\ program.code[j].op = "JMP_IFNOT"
        /\ \A a \in (loopStart + 1)..(j - 1) : program.code[a].op \notin {"JMP", "JMP_IFNOT"}
        /\ program.code[j].operand \in (j + 1)..(Len(program.code) - 1)
        /\ program.code[program.code[j].operand] = Instruction("JMP", loopStart)

\* C30: the while loop of CountingLoop compiles to cond; JMP_IFNOT exit; body;
\* JMP loop_start, and its run prints 0, 1 and 2 and ends without an error.
WhileLowering ==
    /\ (ast = CountingLoop /\ compiledImage) => lowered
    /\ (ast = CountingLoop /\ phase = "exited") => vmErr = "" /\ out = <<"0", "1", "2">>

\* The addresses of the unconditional jumps of the image that go forward (the
\* breaks and continues of a program without else) and backward (the
\* back-jumps of its loops).
forwardJumps ==
    {a \in 0..(Len(program.code) - 1) :
        program.code[a + 1].op = "JMP" /\ program.code[a + 1].operand > a}

backJumps ==
    {a \in 0..(Len(program.code) - 1) :
        program.code[a + 1].op = "JMP" /\ program.code[a + 1].operand <= a}

lowest(S) == CHOOSE a \in S : \A b \in S : a <= b
highest(S) == CHOOSE a \in S : \A b \in S : b <= a

\* Where a break or a continue of the loop with back-jump at address back
\* must go: past the back-jump, to the back-jump of a while, to the increment
\* code (LOAD c; POP) of a for.
exitTarget(kind, exit, back) ==
    IF exit = "break" THEN back + 1
    ELSE IF kind = "while" THEN back
    ELSE back - 2

\* The jumps of NestedLoop(o, i, oe, ie, g, b) are patched as stated.
patchedAsStated(o, i, oe, ie, b) ==
    /\ Cardinality(forwardJumps) = 2 /\ Cardinality(backJumps) = 2
    /\ LET innerJump == IF b THEN highest(forwardJumps) ELSE lowest(forwardJumps)
           outerJump == IF b THEN lowest(forwardJumps) ELSE highest(forwardJumps)
       IN /\ program.code[innerJump + 1].operand = exitTarget(i, ie, lowest(backJumps))
          /\ program.code[outerJump + 1].operand = exitTarget(o, oe, highest(backJumps))
          /\ o = "for" /\ oe = "continue" =>
                /\ program.code[highest(backJumps) - 1].op = "LOAD"
                /\ program.code[highest(backJumps)].op = "POP"
          /\ i = "for" /\ ie = "continue" =>
                /\ program.code[lowest(backJumps) - 1].op = "LOAD"
                /\ program.code[lowest(backJumps)].op = "POP"

\* The compiler inside the body of Main, and inside a loop of that body.
inMain == [Compiler EXCEPT !.contextStack = Append(@, FunctionContext)]
inLoop == [inMain EXCEPT !.loopStack = <<LoopContext>>]

\* C31: every break is patched with the address after its innermost loop and
\* every continue with that loop's back-jump (while) or increment code (for),
\* also when two loops are nested, and compiling a loop leaves the loop stack
\* as deep as it was and the patch lists of the outer loop as they were.
BreakContinuePatching ==
    /\ \A o \in LoopKinds, i \in LoopKinds, oe \in Exits, ie \in Exits, g \in BOOLEAN, b \in BOOLEAN :
          (ast = NestedLoop(o, i, oe, ie, g, b) /\ compiledImage) =>
              patchedAsStated(o, i, oe, ie, b)
    /\ (ast \in NestedLoops /\ phase = "image") =>
          /\ compileErr = ""
          /\ compileStmt(inMain, ast[1].body[1]).loopStack = inMain.loopStack
          /\ compileStmt(inLoop, ast[1].body[1]).loopStack = inLoop.loopStack

BreakContinuePatchingWitness ==
    /\ ast = NestedLoop("for", "while", "continue", "break", TRUE, FALSE)
    /\ phase = "image"
    /\ Cardinality(forwardJumps) = 2

\* ------------------------------------------------------------------------
\* Properties of the call frames
\* ------------------------------------------------------------------------

RECURSIVE frameLocals(_)
\* The sum of the locals counts of the functions of the frames.
frameLocals(frames) ==
    IF frames = <<>> THEN 0
    ELSE frameLocals(SubSeq(frames, 1, Len(frames) - 1)) + frames[Len(frames)].func.locals

\* VM::execute has set the machine up.
vmStarted == phase \in {"exec", "exited"}

\* What CALL and RET do to the frames and to locals.
framesFollowed ==
    [][dispatched =>
          /\ current.op = "CALL" =>
                /\ Len(callStack') = Len(callStack) + 1
                /\ callStack'[Len(callStack')].localStart = Len(locals)
                /\ callStack'[Len(callStack')].func = calledFunction(current.operand)
                /\ Len(locals') = Len(locals) + calledFunction(current.operand).locals
          /\ (current.op = "RET" /\ Len(callStack) > 1) =>
                /\ callStack' = SubSeq(callStack, 1, Len(callStack) - 1)
                /\ Len(locals') = topFrame.localStart]_vars

\* The claim as stated: in every state of the VM, the one the bootstrap return
\* leaves included, the length of locals is the sum over the live frames.
LocalsWindowAsStated ==
    /\ framesFollowed
    /\ [](vmStarted => Len(locals) = frameLocals(callStack))

\* C32: CALL of f pushes one frame whose local_start is the old length of
\* locals and grows locals by f.locals; RET from a frame that is not the
\* bootstrap frame pops one frame and truncates locals to its local_start; so
\* in every state of the VM with a live frame the length of locals is the sum
\* of the locals counts of the functions of the live frames.  (The bootstrap
\* return pops the last frame and leaves locals as they are.)
LocalsWindow ==
    /\ framesFollowed
    /\ [](vmStarted /\ callStack # <<>> => Len(locals) = frameLocals(callStack))
    /\ [](vmStarted /\ callStack = <<>> /\ vmErr = "" => ~running /\ last.op = "RET")

\* A callee with locals of its own has returned to a caller that has locals.
LocalsWindowWitness ==
    /\ vmStarted /\ running /\ last.op = "RET" /\ vmErr = ""
    /\ Len(callStack) = 1 /\ Len(locals) > 0
    /\ \E i \in 1..Len(program.functions) :
          program.functions[i].name # "Main" /\ program.functions[i].locals > 1

\* ------------------------------------------------------------------------
\* Properties of the end of a run
\* ------------------------------------------------------------------------

\* The instruction about to be executed is RET in the bootstrap frame.
bootstrapReturn ==
    /\ current.op = "RET" /\ Len(callStack) = 1 /\ topFrame.returnAddr = UINT32_MAX

\* C33: RET in the bootstrap frame halts the VM without an error, and no
\* instruction is executed after the VM has halted; the run of a compiled image
\* ends through HALT, through the RET of the bootstrap frame or through a
\* runtime error, and while it runs pc is inside the code.
TerminationPaths ==
    /\ [][(steps' = steps + 1 /\ bootstrapReturn) =>
             ~running' /\ vmErr' = "" /\ callStack' = <<>> /\ out' = out /\ stack' = stack]_vars
    /\ [][(phase = "exec" /\ ~running) => (steps' = steps /\ out' = out /\ phase' = "exited")]_vars
    /\ [](compiledImage /\ phase = "exec" /\ running /\ vmErr = "" => pc < Len(program.code))
    /\ [](compiledImage /\ phase = "exited" =>
             \/ vmErr # ""
             \/ ~running /\ last.op = "HALT"
             \/ ~running /\ last.op = "RET" /\ callStack = <<>>)

\* A run has ended through the RET of the bootstrap frame after a call returned.
TerminationPathsWitness ==
    /\ compiledImage /\ phase = "exited" /\ vmErr = ""
    /\ ~running /\ last.op = "RET" /\ callStack = <<>> /\ out # <<>>

\* ------------------------------------------------------------------------
\* Properties of the parsed statements
\* ------------------------------------------------------------------------

\* The statements the parser reads from the tokens b of complete statements.
statementsOf(b) ==
    LET r == parseBlock(Parser(b \o Footer)) IN r.node.statements

\* C34: fn Main() { int n = 0; if (n) { n; } B } parses without an error to a
\* Main whose body is the declaration, If(n, {n;}) and the statements of B, and
\* with else { f(1); } after the then-block that block is the else branch.
IfParsing ==
    \A b \in Siblings :
        /\ (tokens = MainSource(Prelude, IfTokens \o b) /\ phase # "tokens") =>
              /\ files # <<>>
              /\ files[1].ast[2].body =
                    <<VarDecl("int", "n", LitInt(0)),
                      If(Variable("n"), Block(<<ExprStmt(Variable("n"))>>), NoNode)>>
                    \o statementsOf(b)
        /\ (tokens = MainSource(Prelude, IfTokens \o ElseTokens \o b) /\ phase # "tokens") =>
              /\ files # <<>>
              /\ files[1].ast[2].body =
                    <<VarDecl("int", "n", LitInt(0)),
                      If(Variable("n"), Block(<<ExprStmt(Variable("n"))>>),
                         Block(<<ExprStmt(userCall("f", <<LitInt(1)>>))>>))>>
                    \o statementsOf(b)

\* ------------------------------------------------------------------------
\* Properties of the operand stack
\* ------------------------------------------------------------------------

\* The address after the code of the first k statements of the Main of a
\* program of PlainPrograms (Main is the only function and starts at 0).
statementEnd(k) == codeSize(compileStmts(inMain, SubSeq(ast[1].body, 1, k)))

\* C35: the code of a complete statement leaves the operand stack as deep as
\* it found it (Main starts on an empty stack, so it is empty after every
\* statement), and STORE removes the value it stores.
StackBalance ==
    /\ [](\A k \in 1..3 :
            (ast \in PlainPrograms /\ phase = "exec" /\ vmErr = "" /\ pc = statementEnd(k))
                => stack = <<>>)
    /\ [][(compiledImage /\ dispatched /\ current.op = "STORE") =>
             Len(stack') = Len(stack) - 1]_vars

\* ------------------------------------------------------------------------
\* Properties of the host bridge
\* ------------------------------------------------------------------------

\* The image holds a CALL_NATIVE of the import name, or the opcode of the
\* Console function.
invokes(name) ==
    \E i \in 1..Len(program.code) :
        \/ /\ program.code[i].op = "CALL_NATIVE"
           /\ program.code[i].operand < Len(program.nativeImports)
           /\ program.nativeImports[program.code[i].operand + 1] = name
        \/ name = "Console.print" /\ program.code[i].op = "PRINT"
        \/ name = "Console.println" /\ program.code[i].op = "PRINTLN"

\* C36: a call R.m(n) of a function the VM registers compiles to CALL_NATIVE
\* of the import R.m (or to PRINT / PRINTLN), and every import of an image
\* compiled from a call with a receiver the parser takes as native has a
\* registered callback.
HostBridge ==
    \A b \in BridgeNames :
        (tokens = MainSource(<<>>, BridgeCall(b[1], b[2])) /\ tailcDone) =>
            /\ (b[1] \o "." \o b[2]) \in nativeFuncs =>
                  phase # "rejected" /\ invokes(b[1] \o "." \o b[2])
            /\ (b[1] \in realNatives /\ phase # "rejected") =>
                  \A i \in 1..Len(program.nativeImports) : program.nativeImports[i] \in nativeFuncs


\* ------------------------------------------------------------------------
\* tailc: the files to compile (tailc.cpp, findIncludeFile,
\* loadIncludeRecursive and the first loop of main).  The source files lie
\* in the working directory; of a file only its include lines matter, and
\* of an include line the name between "include " and ';'.
\* ------------------------------------------------------------------------

MaxIncludes == 2

IncludeNames == {"main", "a", "b"}

\* findIncludeFile: the first search path, includeName + ".tail".
tailPath(includeName) == includeName \o ".tail"

IncludeLines(n) == UNION {[1..k -> IncludeNames] : k \in 0..n}

\* The working directories: main.tail and a.tail exist, b.tail may be missing.
Disks ==
    {[present |-> {"main", "a"} \cup p, lines |-> [main |-> m, a |-> a, b |-> b]] :
        p \in {{"b"}}, m \in IncludeLines(MaxIncludes), a \in IncludeLines(MaxIncludes),
        b \in IncludeLines(MaxIncludes - 1)}
    \cup
    {[present |-> {"main", "a"}, lines |-> [main |-> m, a |-> a, b |-> <<>>]] :
        m \in IncludeLines(MaxIncludes), a \in IncludeLines(MaxIncludes)}

\* The command lines: the input files of tailc.
InputFiles == {<<"main">>, <<"main", "a">>}

\* std::filesystem::exists on the path of an include name.
exists(disk, includeName) == includeName \in disk.present

\* findIncludeFile: the path found, "" if none.
findIncludeFile(inc, includeName) ==
    IF exists(inc.disk, includeName) THEN tailPath(includeName) ELSE ""

\* The loop of main over its input files, up to the scan of the lines: the
\* input file is pushed and its file name inserted into loadedFiles; pending
\* holds the include names of the lines still to be handed to
\* loadIncludeRecursive.
scanInput(inc) ==
    LET inputFile == Head(inc.inputFiles)
    IN  [inc EXCEPT !.inputFiles = Tail(@),
                    !.allFiles = Append(@, tailPath(inputFile)),
                    !.loaded = @ \cup {tailPath(inputFile)},
                    !.pending = inc.disk.lines[inputFile]]

\* One call of loadIncludeRecursive on the next pending include name: the
\* names of the found file's include lines are next, depth first.
loadIncludeRecursive(inc) ==
    LET includeName == Head(inc.pending)
        foundPath == findIncludeFile(inc, includeName)
    IN  IF includeName \in inc.loaded
        THEN [inc EXCEPT !.pending = Tail(@)]
        ELSE IF foundPath # ""
             THEN [inc EXCEPT !.loaded = @ \cup {includeName},
                              !.allFiles = Append(@, foundPath),
                              !.pending = inc.disk.lines[includeName] \o Tail(@)]
             ELSE [inc EXCEPT !.loaded = @ \cup {includeName},
                              !.pending = Tail(@)]

ScanInput ==
    /\ phase = "includes" /\ includes.pending = <<>> /\ includes.inputFiles # <<>>
    /\ includes' = scanInput(includes)
    /\ UNCHANGED <<phase, tokens, files, ast, compileErr, slotLog, program, vmVars, fileVars,
                   poolVars, lexer, parser>>

LoadInclude ==
    /\ phase = "includes" /\ includes.pending # <<>>
    /\ includes' = loadIncludeRecursive(includes)
    /\ UNCHANGED <<phase, tokens, files, ast, compileErr, slotLog, program, vmVars, fileVars,
                   poolVars, lexer, parser>>

\* main after the loop: "Total files to compile".
IncludesDone ==
    /\ phase = "includes" /\ includes.pending = <<>> /\ includes.inputFiles = <<>>
    /\ phase' = "included"
    /\ UNCHANGED <<tokens, files, ast, compileErr, slotLog, program, vmVars, fileVars,
                   poolVars, frontVars>>

IncludeInit ==
    /\ phase = "includes"
    /\ compileErr = "" /\ slotLog = <<>> /\ tokens = <<>> /\ files = <<>> /\ ast = <<>>
    /\ program = BytecodeFile
    /\ VmInit /\ NoFile
    /\ compiler = Compiler /\ literal = NoLiteral
    /\ lexer = [source |-> <<>>] /\ parser = [tokens |-> <<>>]
    /\ \E disk \in Disks : \E inputFiles \in InputFiles :
          includes = [disk |-> disk, inputFiles |-> inputFiles, allFiles |-> <<>>,
                      loaded |-> {}, pending |-> <<>>]

IncludeNext == ScanInput \/ LoadInclude \/ IncludesDone

IncludeSpec == IncludeInit /\ [][IncludeNext]_vars

\* ------------------------------------------------------------------------
\* Properties of the files to compile
\* ------------------------------------------------------------------------

\* The names that can still be inserted into loadedFiles.
unloaded(inc) == (IncludeNames \cup {tailPath(n) : n \in IncludeNames}) \ inc.loaded

\* C37: on every include graph, cyclic ones and an included file that
\* includes the main file among them, the discovery of the files to compile
\* terminates (every call inserts a new name into the loaded set or leaves
\* fewer include lines to follow, and no more input files), the list only
\* grows at its end, and the list of files to compile holds every source
\* file at most once.
IncludeResolution ==
    /\ [][phase = "includes" /\ phase' = "includes" =>
            \/ Cardinality(unloaded(includes')) < Cardinality(unloaded(includes))
            \/ /\ includes'.loaded = includes.loaded
               /\ Len(includes'.pending) < Len(includes.pending)
               /\ includes'.inputFiles = includes.inputFiles]_vars
    /\ [][phase' = "includes" =>
            /\ Len(includes'.allFiles) >= Len(includes.allFiles)
            /\ SubSeq(includes'.allFiles, 1, Len(includes.allFiles)) = includes.allFiles]_vars
    /\ [](phase = "included" =>
            \A i, j \in 1..Len(includes.allFiles) :
                includes.allFiles[i] = includes.allFiles[j] => i = j)

\* ------------------------------------------------------------------------
\* Properties of the positions of the tokens
\* ------------------------------------------------------------------------

\* The number of newline characters among the first n characters of a source.
newlinesBefore(src, n) == Cardinality({i \in 1..n : src[i] = Newline})

\* C38: the line of every token is 1 plus the number of newline characters
\* that precede the token in the source, newlines inside string literals and
\* at the end of comments included: every newline the lexer consumes advances
\* its line by exactly one and resets its column to 1.
TokenLines ==
    /\ [](phase \in {"lexing", "lexed"} =>
            lexer.line = 1 + newlinesBefore(lexer.source, lexer.current))
    /\ [][phase = "lexing" /\ Len(lexer'.tokens) > Len(lexer.tokens) =>
            lexer'.tokens[Len(lexer'.tokens)].line =
                1 + newlinesBefore(lexer.source, lexer.current)]_vars
    /\ [][phase = "lexing" /\ lexPeek(lexer) = Newline => lexer'.column = 1]_vars

====
